---- MODULE Spec2Model ----
(***************************************************************************)
(* Model of the scope-client Python SDK: the Connection retry loop         *)
(* (connection.py) and the TokenManager (token_manager.py) it asks for a   *)
(* bearer token on every attempt.  Spec follows one caller of a Connection *)
(* through its requests; SpecTM follows several threads calling            *)
(* TokenManager.get_access_token() concurrently.  Time is counted in whole *)
(* seconds.                                                                *)
(***************************************************************************)
EXTENDS Integers, Sequences, FiniteSets, TLC

\* ------------------------------------------------------------------ bounds
NumThreads == 2
MaxCalls == 2
MaxTime == 9
MaxRetriesBound == 2
MaxFetches == 3
MaxOps == 2
MaxAge == 2
MaxLen == 2

MaxDelay == 12
MaxAttempt == 3

MaxObservers == 2

\* bound of the model: number of Connection.close() calls
MaxCloses == 2

Threads == 1..NumThreads
NoThread == 0

\* ------------------------------------------------------- program constants
RETRYABLE_STATUS_CODES == {429, 500, 502, 503, 504}
DefaultExpiresIn == 300

\* --------------------------------------------------------------- inputs
\* Retry-After header values a response may carry: absent, numeric, HTTP-date
RetryAfterHeaders == {"", "2", "Wed, 21 Oct 2026 07:28:00 GMT"}
ErrorStatuses == {400, 401, 403, 404, 409, 429, 500, 502, 503, 504}

ApiOutcomes ==
    {[kind |-> k, status |-> 0, retry_after |-> "", content |-> ""] :
        k \in {"timeout", "connect"}}
    \cup {[kind |-> "response", status |-> 200, retry_after |-> "", content |-> c] :
        c \in {"json", ""}}
    \cup {[kind |-> "response", status |-> s, retry_after |-> "", content |-> "json"] :
        s \in ErrorStatuses}
    \cup {[kind |-> "response", status |-> s, retry_after |-> h, content |-> "json"] :
        s \in {429, 503}, h \in RetryAfterHeaders}

\* expires_in of a 200 answer of the auth endpoint; -1 stands for "absent"
ExpiresInValues == {-1, 2, 3}
AuthStatuses == {200, 201, 401, 403, 500}
AuthOutcomes ==
    {[kind |-> k, status |-> 0, expires_in |-> -1] : k \in {"timeout", "connect"}}
    \cup {[kind |-> "response", status |-> 200, expires_in |-> e] : e \in ExpiresInValues}
    \cup {[kind |-> "response", status |-> s, expires_in |-> -1] : s \in AuthStatuses \ {200}}

VARIABLES
    config,        \* Configuration (frozen dataclass)
    now,           \* time.time()
    token_info,    \* TokenManager._token_info
    lock,          \* holder of TokenManager._lock, NoThread when free
    fetchStarted,  \* number of POSTs sent to the auth endpoint
    post,          \* number of the POST a thread in _fetch_token has sent
    calls,         \* number of calls started so far
    pc,            \* position of each caller thread
    op,            \* "token" (get_access_token) or "request" (Connection._request)
    attempts,      \* local variable attempts of _request
    last_error,    \* local variable last_error of _request
    bearer,        \* token put in the Authorization header of the attempt
    prevBearer,    \* token sent by the previous attempt of the call
    tmCalls,       \* get_access_token invocations made by the current call
    tmGiven,       \* access token the TokenManager stored when it returned to the thread
    sent,          \* HTTP requests the current call has issued to the API
    slept,         \* sleeps the current call has started
    wake,          \* end of the current time.sleep
    answer,        \* answer of the auth endpoint that _fetch_token is handling
    resp,          \* outcome of client.request that _request is handling
    result,        \* how the current call ended
    wait_time,     \* local wait_time: the last wait computed, and for which attempt
    response,      \* the httpx.Response given to Connection._error_from_response
    api_error,     \* the exception Connection._error_from_response returned
    client,        \* Connection._client: 0 for None, else the number of the httpx.Client
    handles,       \* number of httpx.Client objects created so far
    callbacks,     \* Telemetry._request_callbacks, _response_callbacks, _error_callbacks
    emitted,       \* the Telemetry.emit_* call the step just taken made
    requested,     \* "request" events the current call has emitted
    request_id,    \* local request_id of _request: the number of the id generated
    x_request_id,  \* X-Request-ID header of the last request the call issued
    using,         \* the handle self.client gave the current attempt
    closed,        \* the httpx.Client objects that have been closed
    closes,        \* number of Connection.close() calls so far
    store,         \* Cache._store: cache key -> CacheEntry
    cpc,           \* position of each thread inside a Cache or ScopeClient call
    cop,           \* the Cache.fetch or ScopeClient call a thread is inside
    loaded,        \* local variable value of Cache.fetch: what the loader returned
    ret,           \* the call the step just taken ended, and how it ended
    written,       \* history: the last set of each key not deleted or cleared since
    rpc,           \* position of the Renderer.render call
    content,       \* Renderer._content, a sequence of tokens
    declared,      \* Renderer._declared_variables
    supplied,      \* **values of render: (name, value) pairs in keyword order
    rendered       \* how Renderer.render ended

vars == <<config, now, token_info, lock, fetchStarted, post, calls, pc, op, attempts,
          last_error, bearer, prevBearer, tmCalls, tmGiven, sent, slept, wake,
          answer, resp, result, wait_time, response, api_error, client, handles,
          callbacks, emitted, requested, request_id, x_request_id, using, closed,
          closes, store, cpc, cop, loaded, ret, written, rpc, content,
          declared, supplied, rendered>>

tmvars == <<token_info, lock, fetchStarted>>

\* the argument and the value of Connection._error_from_response
errorvars == <<response, api_error>>

\* the transport handle of a Connection
handlevars == <<client, handles>>

\* state of Telemetry and of its use by Connection
telvars == <<callbacks, emitted, requested>>

\* the request id of a call and the handle of its attempt
reqvars == <<request_id, x_request_id, using>>

\* what Connection.close() has done
closevars == <<closed, closes>>

\* state of Connection and TokenManager calls
connvars == <<tmvars, post, pc, op, attempts, last_error, bearer, prevBearer, tmCalls,
              tmGiven, sent, slept, wake, answer, resp, result, wait_time, errorvars,
              handlevars, telvars, reqvars, closevars>>

\* state of the Cache and of the ScopeClient calls that go through it
cachevars == <<store, cpc, cop, loaded, ret, written>>

\* state of a Renderer
rendervars == <<rpc, content, declared, supplied, rendered>>

\* state of the layers above Connection
uppervars == <<cachevars, rendervars>>

\* ------------------------------------------------------------- values
Min(a, b) == IF a <= b THEN a ELSE b

\* the backoff without the exponential factor
Pow2_flat(n) == 1

Pow2(n) == IF n <= 0 THEN 1 ELSE 2 ^ n

TokenNone == [has |-> FALSE, access_token |-> 0, expires_at |-> 0]

NoResult == [state |-> "none", kind |-> "", status |-> 0, retry_after |-> -1,
             cause |-> "", value |-> 0]

Returned(kind, value) == [state |-> "returned", kind |-> kind, status |-> 0,
                          retry_after |-> -1, cause |-> "", value |-> value]

Raised(kind, status, retry_after, cause) ==
    [state |-> "raised", kind |-> kind, status |-> status,
     retry_after |-> retry_after, cause |-> cause, value |-> 0]

NoError == [kind |-> "", cause |-> ""]

NoAnswer == [kind |-> "", status |-> 0, expires_in |-> -1]

NoResp == [kind |-> "", status |-> 0, retry_after |-> "", content |-> ""]

\* wait_time before any wait has been computed
NoWait == [attempt |-> 0, wait |-> 0]

\* the wait computed for a retry after attempt number attempt
WaitTime(attempt, wait) == [attempt |-> attempt, wait |-> wait]

\* ---------------------------------------------------- token_manager.py
\* _needs_refresh with > for >=: the token is kept one second too long
NeedsRefresh_gt(ti, t, buffer) ==
    IF ~ti.has THEN TRUE ELSE t > ti.expires_at - buffer

\* TokenManager._needs_refresh
NeedsRefresh(ti, t, buffer) ==
    IF ~ti.has THEN TRUE ELSE t >= ti.expires_at - buffer

\* get_access_token without the lock
LockAvailable_nolock == TRUE

\* `with self._lock` of get_access_token can be entered
LockAvailable == lock = NoThread

\* _handle_token_response without the 403 branch
TokenFetchError_no403(o) ==
    CASE o.kind = "connect" -> "TokenRefreshError"
      [] o.kind = "timeout" -> "TokenRefreshError"
      [] o.status = 200 -> ""
      [] o.status = 401 -> "InvalidCredentialsError"
      [] OTHER -> "TokenRefreshError"

\* TokenManager._handle_token_response and the except clauses of _fetch_token:
\* the exception class raised for an answer of the auth endpoint, "" for none
TokenFetchError(o) ==
    CASE o.kind = "connect" -> "TokenRefreshError"
      [] o.kind = "timeout" -> "TokenRefreshError"
      [] o.status = 200 -> ""
      [] o.status = 401 -> "InvalidCredentialsError"
      [] o.status = 403 -> "InvalidCredentialsError"
      [] OTHER -> "TokenRefreshError"

\* data.get("expires_in", 300)
ExpiresIn(o) == IF o.expires_in = -1 THEN DefaultExpiresIn ELSE o.expires_in

\* the TokenInfo stored for a 200 answer carrying access token tok
NewTokenInfo(o, tok, t) ==
    [has |-> TRUE, access_token |-> tok, expires_at |-> t + ExpiresIn(o)]

\* get_access_token returns self._token_info.access_token, read after the fetch
ReturnedAccessToken(before, after) == after.access_token

\* -------------------------------------------------------- _telemetry.py
\* A callback is what it does when called: "returns", or the class of the
\* exception it raises.  RuntimeError derives from Exception; SystemExit
\* derives from BaseException only.
ExceptionClasses == {"RuntimeError"}

\* the lists of callbacks with nothing registered
NoCallbackLists == [request |-> <<>>, response |-> <<>>, error |-> <<>>]

\* emit_* without contextlib.suppress
Suppresses_none(exc) == FALSE

\* contextlib.suppress(Exception) swallows exc
Suppresses(exc) == exc \in ExceptionClasses

\* the callback whose exception leaves emit_*, 0 when none does
FirstEscape(cbs) ==
    LET esc == {i \in DOMAIN cbs : cbs[i] # "returns" /\ ~Suppresses(cbs[i])}
    IN  IF esc = {} THEN 0 ELSE CHOOSE i \in esc : \A j \in esc : i <= j

\* the callbacks the for loop of emit_* calls, in order
Invoked(cbs) ==
    [i \in 1..(IF FirstEscape(cbs) = 0 THEN Len(cbs) ELSE FirstEscape(cbs)) |-> i]

\* the exception that leaves emit_*, "" when it returns
EmitRaises(cbs) == IF FirstEscape(cbs) = 0 THEN "" ELSE cbs[FirstEscape(cbs)]

\* emit_* given an info object that carries no request id
Emitted_anonymous(t, event, cbs) ==
    [thread |-> t, event |-> event, request_id |-> 0,
     invoked |-> Invoked(cbs), raised |-> EmitRaises(cbs)]

\* thread t called Telemetry.emit_<event> with the request_id of its call
Emitted(t, event, cbs) ==
    [thread |-> t, event |-> event, request_id |-> request_id[t],
     invoked |-> Invoked(cbs), raised |-> EmitRaises(cbs)]

\* generate_request_id(): the n-th identifier generated; uuid4 values are
\* taken to be distinct
GenerateRequestId(n) == n

\* the step called no emit_*
NoEmit == [thread |-> NoThread, event |-> "", request_id |-> 0, invoked |-> <<>>,
           raised |-> ""]

\* ------------------------------------------------------- connection.py
\* errors.error_from_response with the Retry-After parsing of
\* Connection._error_from_response (int(header), ValueError suppressed)
RetryAfterInt(h) ==
    CASE h = "2" -> 2
      [] h = "0" -> 0
      [] OTHER -> -1

\* the table error_classes without its entry for 409
ErrorFromResponse_no409(status, h) ==
    CASE status = 401 -> Raised("AuthenticationError", 401, -1, "")
      [] status = 403 -> Raised("AuthorizationError", 403, -1, "")
      [] status = 404 -> Raised("NotFoundError", 404, -1, "")
      [] status = 429 -> Raised("RateLimitError", 429, RetryAfterInt(h), "")
      [] status >= 500 /\ status < 600 -> Raised("ServerError", status, -1, "")
      [] OTHER -> Raised("ApiError", status, -1, "")

ErrorFromResponse(status, h) ==
    CASE status = 401 -> Raised("AuthenticationError", 401, -1, "")
      [] status = 403 -> Raised("AuthorizationError", 403, -1, "")
      [] status = 404 -> Raised("NotFoundError", 404, -1, "")
      [] status = 409 -> Raised("ConflictError", 409, -1, "")
      [] status = 429 -> Raised("RateLimitError", 429, RetryAfterInt(h), "")
      [] status >= 500 /\ status < 600 -> Raised("ServerError", status, -1, "")
      [] OTHER -> Raised("ApiError", status, -1, "")

\* an httpx.Response as _error_from_response reads it: the status, the text
\* of the body, the headers X-Request-ID and Retry-After ("" when absent)
Response(status, text, header_id, retry_after) ==
    [status |-> status, text |-> text, request_id |-> header_id,
     retry_after |-> retry_after]

\* the bodies of error responses: not JSON, a JSON list, and JSON objects
\* with and without an "error" member
BodyNoJson == "<html>Bad Gateway</html>"
BodyList == "[1]"
BodyEmptyObject == "{}"
BodyErrorString == "{\"error\": \"boom\"}"
BodyErrorCode == "{\"error\": {\"code\": \"E1\"}}"
BodyErrorFull == "{\"error\": {\"code\": \"E1\", \"message\": \"m\"}}"

\* data.get("error", {}).get("code") under `except Exception: pass`;
\* "" stands for None
ErrorCode(text) == IF text \in {BodyErrorCode, BodyErrorFull} THEN "E1" ELSE ""

\* data.get("error", {}).get("message") under `except Exception: pass`
ErrorMessage(text) == IF text = BodyErrorFull THEN "m" ELSE ""

\* no response
NoResponse == Response(0, "", "", "")

\* no exception
NoApiError == [kind |-> "", http_status |-> 0, http_body |-> "", error_code |-> "",
               request_id |-> "", retry_after |-> -1, message |-> ""]

\* Connection._error_from_response: the exception built by
\* errors.error_from_response from what is read in the response
ConnectionErrorFromResponse(r) ==
    LET e == ErrorFromResponse(r.status, r.retry_after)
    IN  [kind |-> e.kind, http_status |-> e.status, http_body |-> r.text,
         error_code |-> ErrorCode(r.text), request_id |-> r.request_id,
         retry_after |-> e.retry_after, message |-> ErrorMessage(r.text)]

\* what the try body of _request raises for the outcome of client.request:
\* httpx raises for transport failures only (raise_for_status is never called),
\* _handle_response raises the classified ApiError for status >= 400
TryBodyRaises(o) ==
    CASE o.kind = "timeout" -> "httpx.TimeoutException"
      [] o.kind = "connect" -> "httpx.ConnectError"
      [] o.kind = "read" -> "httpx.ReadError"
      [] o.status >= 400 -> "ApiError"
      [] OTHER -> ""

\* _request with `except Exception` where it has `except httpx.ConnectError`
CaughtBy_broad(exc) ==
    CASE exc = "httpx.TimeoutException" -> "timeout"
      [] OTHER -> "connect"

\* the except clause of _request that catches an exception, "" when it propagates
CaughtBy(exc) ==
    CASE exc = "httpx.TimeoutException" -> "timeout"
      [] exc = "httpx.ConnectError" -> "connect"
      [] exc = "httpx.HTTPStatusError" -> "status"
      [] OTHER -> ""

\* both except clauses building the base ConnectionError
WrapTransportError_base(clause, exc) == [kind |-> "ConnectionError", cause |-> exc]

\* the error an except clause of _request builds around the httpx exception
WrapTransportError(clause, exc) ==
    IF clause = "timeout"
    THEN [kind |-> "TimeoutError", cause |-> exc]
    ELSE [kind |-> "ConnectionError", cause |-> exc]

\* the Authorization header built once per call and kept across attempts
AuthHeaderStep_cached(held) == IF held # 0 THEN "send" ELSE "tm_wait"

\* headers={..., **self._get_auth_header()} inside the loop: every attempt
\* goes to the TokenManager, whatever token an earlier attempt held
AuthHeaderStep(held) == "tm_wait"

\* the loop test with < for <=
WhileCondition_lt(n, max_retries) == n < max_retries

\* while attempts <= self._config.max_retries
WhileCondition(n, max_retries) == n <= max_retries

\* the retry test with < for <=
RetryAllowed_lt(n, max_retries) == n < max_retries

\* if attempts <= self._config.max_retries (after the increment)
RetryAllowed(n, max_retries) == n <= max_retries

\* float(retry_after) of the HTTPStatusError clause
RetryAfterIsNumeric(h) == h = "2"
RetryAfterFloat(h) == IF h = "2" THEN 2 ELSE 0

\* whole-second values of delay * 0.25 * (2 * random.random() - 1), random() in [0, 1)
Jitter(delay) == {j \in (0 - delay)..delay : 4 * j >= 0 - delay /\ 4 * j < delay}

\* _calculate_backoff without the cap at retry_max_delay
CalculateBackoff_nocap(attempt, jitter) ==
    config.retry_base_delay * Pow2(attempt - 1) + jitter

\* Connection._calculate_backoff, jitter being the random term
CalculateBackoff(attempt, jitter) ==
    LET delay == config.retry_base_delay * Pow2(attempt - 1)
    IN  Min(delay + jitter, config.retry_max_delay)

BackoffValues(attempt) ==
    {CalculateBackoff(attempt, j) :
        j \in Jitter(config.retry_base_delay * Pow2(attempt - 1))}

\* the event _request emits for the outcome o of client.request: the
\* response event after the call returned, the error event in the except
\* clauses of the transport failures, "" for no event when the exception
\* of client.request meets no except clause
TelemetryEvent(o) ==
    CASE o.kind = "response" -> "response"
      [] CaughtBy(TryBodyRaises(o)) \in {"timeout", "connect"} -> "error"
      [] OTHER -> ""

\* Connection._handle_response for status < 400
Payload(o) == IF o.content = "" THEN Returned("null", 0) ELSE Returned("json", o.status)


\* ------------------------------------------------------------- cache.py
\* ttl=None: no TTL override is given
TtlNone == -1

\* Python's None as a cached or loaded value
NoneValue == [type |-> "None", id |-> "", data |-> 0]

\* an opaque value other than None
Value(n) == [type |-> "value", id |-> "", data |-> n]

\* dict assignment self._store[key] = entry
Put(s, key, entry) == [x \in DOMAIN s \cup {key} |-> IF x = key THEN entry ELSE s[x]]

\* del self._store[key] for every key of K that is stored
Remove(s, K) == [x \in DOMAIN s \ K |-> s[x]]

\* dataclass CacheEntry
CacheEntry(value, expires_at) == [value |-> value, expires_at |-> expires_at]

\* is_expired with > for >=: an entry lives one instant too long
IsExpired_gt(entry, t) == t > entry.expires_at

\* CacheEntry.is_expired
IsExpired(entry, t) == t >= entry.expires_at

\* the TTL override is dropped
ActualTtl_default(ttl, default) == default

\* actual_ttl of Cache.set
ActualTtl(ttl, default) == IF ttl # TtlNone THEN ttl ELSE default

\* Cache.get: the value returned
CacheGet(s, key, t) ==
    IF key \notin DOMAIN s THEN NoneValue
    ELSE IF IsExpired(s[key], t) THEN NoneValue
    ELSE s[key].value

\* get that leaves an expired entry where it is
StoreAfterGet_keep(s, key, t) == s

\* get that gives the entry it found a new lease of one second
StoreAfterGet_touch(s, key, t) ==
    IF key \notin DOMAIN s THEN s
    ELSE IF IsExpired(s[key], t) THEN Remove(s, {key})
    ELSE Put(s, key, CacheEntry(s[key].value, s[key].expires_at + 1))

\* Cache.get: the store it leaves
StoreAfterGet(s, key, t) ==
    IF key \in DOMAIN s /\ IsExpired(s[key], t) THEN Remove(s, {key}) ELSE s

\* set that keeps an entry already stored
CacheSet_keep(s, key, value, ttl, t, default) ==
    IF key \in DOMAIN s THEN s
    ELSE Put(s, key, CacheEntry(value, t + ActualTtl(ttl, default)))

\* Cache.set: the store it leaves
CacheSet(s, key, value, ttl, t, default) ==
    Put(s, key, CacheEntry(value, t + ActualTtl(ttl, default)))

\* Cache.fetch: `if cached_value is not None`
FetchHit(cached_value) == cached_value # NoneValue

\* Cache.delete: the value returned
CacheDelete(s, key) == key \in DOMAIN s

\* expired_keys of Cache.size
ExpiredKeys(s, t) == {k \in DOMAIN s : t >= s[k].expires_at}

\* Cache.size: the store it leaves
StoreAfterSize(s, t) == Remove(s, ExpiredKeys(s, t))

\* Cache.size: the value returned
CacheSize(s, t) == Cardinality(DOMAIN StoreAfterSize(s, t))

\* keys that lists every stored key
CacheKeys_all(s, t) == DOMAIN s

\* Cache.keys: the value returned
CacheKeys(s, t) == {k \in DOMAIN s : t < s[k].expires_at}

\* Cache.keys: the store it leaves (the method deletes nothing)
StoreAfterKeys(s, t) == s

\* has that reports every stored, unexpired key, whatever its value
CacheHas_stored(s, key, t) == key \in DOMAIN s /\ ~IsExpired(s[key], t)

\* Cache.has
CacheHas(s, key, t) == CacheGet(s, key, t) # NoneValue

\* ------------------------------------------------------------ client.py
\* a Prompt or PromptVersion built from response data
Resource(type, id, data) == [type |-> type, id |-> id, data |-> data]

\* the cache_key of the four lookups
CacheKey(lookup, prompt_id, version_id) ==
    CASE lookup = "get_prompt" -> "prompt:" \o prompt_id
      [] lookup = "get_prompt_latest" -> "prompt:" \o prompt_id \o ":latest"
      [] lookup = "get_prompt_production" -> "prompt:" \o prompt_id \o ":production"
      [] OTHER -> "prompt:" \o prompt_id \o ":version:" \o version_id

\* render_prompt: the lookup chosen for its version argument
RenderPromptLookup(version) ==
    CASE version = "production" -> "get_prompt_production"
      [] version = "latest" -> "get_prompt_latest"
      [] OTHER -> "get_prompt_version"

\* NoProductionVersionError(prompt_id)
NoProductionVersionError(prompt_id) ==
    [state |-> "raised", kind |-> "NoProductionVersionError", status |-> 0,
     retry_after |-> -1, cause |-> "", value |-> 0, prompt_id |-> prompt_id]

\* what Connection.get gives when the last attempt of _request ended with o
ConnectionGet(o) ==
    LET exc == TryBodyRaises(o)
        clause == CaughtBy(exc)
    IN  CASE exc = "" -> Payload(o)
          [] clause \in {"timeout", "connect"} ->
               Raised(WrapTransportError(clause, exc).kind, 0, -1,
                      WrapTransportError(clause, exc).cause)
          [] OTHER -> ErrorFromResponse(o.status, o.retry_after)

\* the loader ended by returning value
Loaded(value) == [raises |-> FALSE, value |-> value, error |-> NoResult]

\* the loader ended by raising error
LoaderRaised(error) == [raises |-> TRUE, value |-> NoneValue, error |-> error]

\* every closure translates NotFoundError
CatchesNotFound_all(lookup) == TRUE

\* the closure fetch() of the lookup has the clause `except NotFoundError`
CatchesNotFound(lookup) == lookup = "get_prompt_production"

\* the except clause raises the NotFoundError it caught again
FetchFunc_raw(lookup, prompt_id, r, data) ==
    CASE r.state = "raised" -> LoaderRaised(r)
      [] r.kind = "null" -> LoaderRaised(Raised("TypeError", 0, -1, ""))
      [] OTHER -> Loaded(Resource(IF lookup = "get_prompt" THEN "Prompt"
                                   ELSE "PromptVersion", prompt_id, data))

\* the closures fetch() of the four lookups, given the outcome r of
\* Connection.get and the data of a JSON answer; Resource(None) is a TypeError
FetchFunc(lookup, prompt_id, r, data) ==
    CASE r.state = "raised" /\ r.kind = "NotFoundError" /\ CatchesNotFound(lookup) ->
               LoaderRaised(NoProductionVersionError(prompt_id))
      [] r.state = "raised" -> LoaderRaised(r)
      [] r.kind = "null" -> LoaderRaised(Raised("TypeError", 0, -1, ""))
      [] OTHER -> Loaded(Resource(IF lookup = "get_prompt" THEN "Prompt"
                                   ELSE "PromptVersion", prompt_id, data))

\* _fetch_with_cache reading the cache whatever the cache option says
UseCache_always(use_cache, enabled) == enabled

\* _fetch_with_cache: `not use_cache or self._cache is None` is false
UseCache(use_cache, enabled) == use_cache /\ enabled

\* ------------------------------------------- calls on Cache, ScopeClient
\* cop of a thread that has made no call yet
NoOp == [name |-> "", lookup |-> "", key |-> "", ttl |-> TtlNone, value |-> NoneValue,
         use_cache |-> TRUE, prompt_id |-> ""]

\* a call of a Cache method
CacheCall(name, key, value, ttl) ==
    [name |-> name, lookup |-> "", key |-> key, ttl |-> ttl, value |-> value,
     use_cache |-> TRUE, prompt_id |-> ""]

\* a call of a ScopeClient method with the options cache and cache_ttl
ClientCall(name, lookup, prompt_id, version_id, use_cache, ttl) ==
    [name |-> name, lookup |-> lookup, key |-> CacheKey(lookup, prompt_id, version_id),
     ttl |-> ttl, value |-> NoneValue, use_cache |-> use_cache, prompt_id |-> prompt_id]

\* no result
NoCRes == [state |-> "none", value |-> NoneValue, flag |-> FALSE, count |-> 0,
           keys |-> {}, error |-> NoResult]

RetValue(v) == [NoCRes EXCEPT !.state = "returned", !.value = v]
RetFlag(b) == [NoCRes EXCEPT !.state = "returned", !.flag = b]
RetCount(n) == [NoCRes EXCEPT !.state = "returned", !.count = n]
RetKeys(K) == [NoCRes EXCEPT !.state = "returned", !.keys = K]
RetNothing == [NoCRes EXCEPT !.state = "returned"]
RaisedWith(e) == [NoCRes EXCEPT !.state = "raised", !.error = e]

\* thread t ended call o with result r
Ended(t, o, r) == [thread |-> t, call |-> o, result |-> r]

\* the step ended no call
NoReturn == Ended(NoThread, NoOp, NoCRes)

\* the history entry of a set
Written(value, ttl, t) == [value |-> value, ttl |-> ttl, at |-> t]

\* ---------------------------------------------------------- renderer.py
\* Text is a sequence of tokens: a token is a piece of literal text or one
\* whole placeholder {{name}}.
VariableNames == {"a", "b"}

\* "{{" + key + "}}"
Placeholder(key) == "{{" \o key \o "}}"

\* VARIABLE_PATTERN matches the token
IsPlaceholder(tok) == \E n \in VariableNames : tok = Placeholder(n)

\* the group VARIABLE_PATTERN captures in a placeholder token
PlaceholderName(tok) == CHOOSE n \in VariableNames : tok = Placeholder(n)

\* VARIABLE_PATTERN.findall(text), as a set
FindAll(text) ==
    {PlaceholderName(text[i]) : i \in {j \in DOMAIN text : IsPlaceholder(text[j])}}

\* declared_variables=None
DeclaredNone == [given |-> FALSE, names |-> {}]

\* set(declared_variables)
Declared(names) == [given |-> TRUE, names |-> names]

\* values.keys()
SuppliedKeys(values) == {values[i][1] : i \in DOMAIN values}

\* replace with count=1: only the first occurrence is replaced
RECURSIVE StrReplace_first(_, _, _)
StrReplace_first(text, pattern, value) ==
    IF text = <<>> THEN <<>>
    ELSE IF Head(text) = pattern THEN value \o Tail(text)
    ELSE <<Head(text)>> \o StrReplace_first(Tail(text), pattern, value)

\* text.replace(pattern, value)
RECURSIVE StrReplace(_, _, _)
StrReplace(text, pattern, value) ==
    IF text = <<>> THEN <<>>
    ELSE (IF Head(text) = pattern THEN value ELSE <<Head(text)>>)
         \o StrReplace(Tail(text), pattern, value)

\* the for loop of render: one replace per supplied name, in keyword order
RECURSIVE Substitute(_, _)
Substitute(text, values) ==
    IF values = <<>> THEN text
    ELSE Substitute(StrReplace(text, Placeholder(Head(values)[1]), Head(values)[2]),
                    Tail(values))

\* unknown_keys of _validate_variables
UnknownKeys(decl, values) ==
    IF ~decl.given THEN {} ELSE SuppliedKeys(values) \ decl.names

NotRendered == [state |-> "none", kind |-> "", text |-> <<>>, names |-> {},
                template |-> <<>>]

RenderReturned(text) == [state |-> "returned", kind |-> "", text |-> text,
                         names |-> {}, template |-> <<>>]

RenderRaised(kind, names, template) ==
    [state |-> "raised", kind |-> kind, text |-> <<>>, names |-> names,
     template |-> template]

\* render with _check_unrendered_variables moved before _validate_variables
Render_check_first(text, decl, values) ==
    CASE FindAll(Substitute(text, values)) # {} ->
             RenderRaised("MissingVariableError", FindAll(Substitute(text, values)), text)
      [] UnknownKeys(decl, values) # {} ->
             RenderRaised("ValidationError", UnknownKeys(decl, values), <<>>)
      [] OTHER -> RenderReturned(Substitute(text, values))

\* Renderer.render
Render(text, decl, values) ==
    CASE UnknownKeys(decl, values) # {} ->
             RenderRaised("ValidationError", UnknownKeys(decl, values), <<>>)
      [] FindAll(Substitute(text, values)) # {} ->
             RenderRaised("MissingVariableError", FindAll(Substitute(text, values)), text)
      [] OTHER -> RenderReturned(Substitute(text, values))

\* --------------------------------------------------------------- Init
\* a Configuration; the delays, the buffer and cache_ttl are small numbers of seconds
Configuration(max_retries, cache_enabled) ==
    [max_retries |-> max_retries, retry_base_delay |-> 4, retry_max_delay |-> 8,
     token_refresh_buffer |-> 2, cache_enabled |-> cache_enabled, cache_ttl |-> 1,
     telemetry_enabled |-> TRUE]

\* the state after construction, whatever the Configuration is
Constructed ==
    /\ now = 0
    /\ token_info = TokenNone
    /\ lock = NoThread
    /\ fetchStarted = 0
    /\ post = [t \in Threads |-> 0]
    /\ calls = 0
    /\ pc = [t \in Threads |-> "idle"]
    /\ op = [t \in Threads |-> ""]
    /\ attempts = [t \in Threads |-> 0]
    /\ last_error = [t \in Threads |-> NoError]
    /\ bearer = [t \in Threads |-> 0]
    /\ prevBearer = [t \in Threads |-> 0]
    /\ tmCalls = [t \in Threads |-> 0]
    /\ tmGiven = [t \in Threads |-> 0]
    /\ sent = [t \in Threads |-> 0]
    /\ slept = [t \in Threads |-> 0]
    /\ wake = [t \in Threads |-> 0]
    /\ answer = [t \in Threads |-> NoAnswer]
    /\ resp = [t \in Threads |-> NoResp]
    /\ result = [t \in Threads |-> NoResult]
    /\ wait_time = [t \in Threads |-> NoWait]
    /\ client = 0
    /\ handles = 0
    /\ emitted = NoEmit
    /\ requested = [t \in Threads |-> 0]
    /\ request_id = [t \in Threads |-> 0]
    /\ x_request_id = [t \in Threads |-> 0]
    /\ using = [t \in Threads |-> 0]
    /\ closed = {}
    /\ closes = 0
    /\ store = <<>>
    /\ cpc = [t \in Threads |-> "idle"]
    /\ cop = [t \in Threads |-> NoOp]
    /\ loaded = [t \in Threads |-> NoneValue]
    /\ ret = NoReturn
    /\ written = <<>>

\* _error_from_response has not been called
NothingClassified ==
    /\ response = NoResponse
    /\ api_error = NoApiError

\* no callback has been registered with Telemetry
NoCallbacks == callbacks = NoCallbackLists

\* no Renderer has been constructed
NoRenderer ==
    /\ rpc = "none"
    /\ content = <<>>
    /\ declared = DeclaredNone
    /\ supplied = <<>>
    /\ rendered = NotRendered

Init ==
    /\ config \in {Configuration(m, TRUE) : m \in (0 - 1)..MaxRetriesBound}
    /\ Constructed
    /\ NothingClassified
    /\ NoCallbacks
    /\ NoRenderer

\* a caller thread starts a new call: the locals of the previous one are gone
Fresh(t, o, p, asked) ==
    /\ pc[t] \in {"idle", "done"}
    /\ calls < MaxCalls
    /\ calls' = calls + 1
    /\ op' = [op EXCEPT ![t] = o]
    /\ pc' = [pc EXCEPT ![t] = p]
    /\ attempts' = [attempts EXCEPT ![t] = 0]
    /\ last_error' = [last_error EXCEPT ![t] = NoError]
    /\ bearer' = [bearer EXCEPT ![t] = 0]
    /\ prevBearer' = [prevBearer EXCEPT ![t] = 0]
    /\ tmCalls' = [tmCalls EXCEPT ![t] = asked]
    /\ tmGiven' = [tmGiven EXCEPT ![t] = 0]
    /\ sent' = [sent EXCEPT ![t] = 0]
    /\ slept' = [slept EXCEPT ![t] = 0]
    /\ wake' = [wake EXCEPT ![t] = 0]
    /\ result' = [result EXCEPT ![t] = NoResult]
    /\ wait_time' = [wait_time EXCEPT ![t] = NoWait]
    /\ requested' = [requested EXCEPT ![t] = 0]
    /\ request_id' = [request_id EXCEPT ![t] = GenerateRequestId(calls + 1)]
    /\ x_request_id' = [x_request_id EXCEPT ![t] = 0]
    /\ using' = [using EXCEPT ![t] = 0]
    /\ emitted' = NoEmit
    /\ UNCHANGED <<uppervars, errorvars, handlevars, closevars, callbacks, config, now,
                   tmvars, post, answer, resp>>

\* a thread calls TokenManager.get_access_token() directly
StartTokenCall(t) == Fresh(t, "token", "tm_wait", 1)

\* a thread calls Connection.get/post/put/delete: _request up to the loop
StartRequest(t) == Fresh(t, "request", "loop", 0)

\* the step after self.client has given the transport handle: the arguments
\* of client.request are evaluated, _get_auth_header() asks for the token
AuthHeaderAsked(t) ==
    /\ pc' = [pc EXCEPT ![t] = AuthHeaderStep(bearer[t])]
    /\ tmCalls' = [tmCalls EXCEPT ![t] =
           IF AuthHeaderStep(bearer[t]) = "tm_wait" THEN @ + 1 ELSE @]

\* the while test of _request.  An attempt starts with the "request" event
\* (when telemetry is enabled), then reads self.client, which finds the
\* handle or finds None and goes on to create one, then asks for the bearer
\* token; or the loop is left for the raise statements after it
LoopHead(t) ==
    /\ pc[t] = "loop"
    /\ IF WhileCondition(attempts[t], config.max_retries)
       THEN /\ attempts' = [attempts EXCEPT ![t] = @ + 1]
            /\ prevBearer' = [prevBearer EXCEPT ![t] = bearer[t]]
            /\ IF config.telemetry_enabled
               THEN /\ emitted' = Emitted(t, "request", callbacks.request)
                    /\ requested' = [requested EXCEPT ![t] = @ + 1]
               ELSE /\ emitted' = NoEmit
                    /\ UNCHANGED requested
            /\ IF config.telemetry_enabled /\ EmitRaises(callbacks.request) # ""
               THEN /\ result' = [result EXCEPT ![t] =
                            Raised(EmitRaises(callbacks.request), 0, -1, "")]
                    /\ pc' = [pc EXCEPT ![t] = "done"]
                    /\ UNCHANGED <<tmCalls, using>>
               ELSE /\ IF client = 0
                       THEN /\ pc' = [pc EXCEPT ![t] = "new_client"]
                            /\ UNCHANGED <<tmCalls, using>>
                       ELSE /\ AuthHeaderAsked(t)
                            /\ using' = [using EXCEPT ![t] = client]
                    /\ UNCHANGED result
       ELSE /\ result' = [result EXCEPT ![t] =
                    IF last_error[t] # NoError
                    THEN Raised(last_error[t].kind, 0, -1, last_error[t].cause)
                    ELSE Raised("ConnectionError", 0, -1, "")]
            /\ pc' = [pc EXCEPT ![t] = "done"]
            /\ emitted' = NoEmit
            /\ UNCHANGED <<attempts, tmCalls, prevBearer, requested, using>>
    /\ UNCHANGED <<uppervars, errorvars, handlevars, closevars, request_id, x_request_id,
                   callbacks, wait_time, config, now, tmvars, post, calls, op, last_error,
                   bearer, tmGiven, sent, slept, wake, answer, resp>>

\* the client property found _client None: it builds an httpx.Client and
\* stores it; no lock is held between the test and the assignment
NewClient(t) ==
    /\ pc[t] = "new_client"
    /\ handles' = handles + 1
    /\ client' = handles + 1
    /\ AuthHeaderAsked(t)
    /\ emitted' = NoEmit
    /\ using' = [using EXCEPT ![t] = handles + 1]
    /\ UNCHANGED <<uppervars, errorvars, closevars, request_id, x_request_id, callbacks,
                   requested, wait_time, config, now, tmvars, post, calls, op, attempts,
                   last_error, bearer, prevBearer, tmGiven, sent, slept, wake, answer,
                   resp, result>>

\* get_access_token hands tok to its caller (given is what the manager stores)
TMReturn(t, tok, given) ==
    /\ tmGiven' = [tmGiven EXCEPT ![t] = given]
    /\ IF op[t] = "token"
       THEN /\ result' = [result EXCEPT ![t] = Returned("token", tok)]
            /\ pc' = [pc EXCEPT ![t] = "done"]
            /\ UNCHANGED bearer
       ELSE /\ bearer' = [bearer EXCEPT ![t] = tok]
            /\ pc' = [pc EXCEPT ![t] = "send"]
            /\ UNCHANGED result

\* get_access_token raises and _request treats it as a retryable failure
TMRaise_retry(t, kind, cause) ==
    /\ IF op[t] = "request"
       THEN /\ pc' = [pc EXCEPT ![t] = "loop"]
            /\ UNCHANGED result
       ELSE /\ result' = [result EXCEPT ![t] = Raised(kind, 0, -1, cause)]
            /\ pc' = [pc EXCEPT ![t] = "done"]
    /\ UNCHANGED <<bearer, tmGiven>>

\* get_access_token raises; inside _request no except clause catches it
TMRaise(t, kind, cause) ==
    /\ result' = [result EXCEPT ![t] = Raised(kind, 0, -1, cause)]
    /\ pc' = [pc EXCEPT ![t] = "done"]
    /\ UNCHANGED <<bearer, tmGiven>>

\* get_access_token: take the lock and test _needs_refresh; either the POST
\* to the auth endpoint is sent or the cached token is returned
TMEnter(t) ==
    /\ pc[t] = "tm_wait"
    /\ LockAvailable
    /\ IF NeedsRefresh(token_info, now, config.token_refresh_buffer)
       THEN /\ fetchStarted < MaxFetches
            /\ lock' = t
            /\ fetchStarted' = fetchStarted + 1
            /\ post' = [post EXCEPT ![t] = fetchStarted + 1]
            /\ pc' = [pc EXCEPT ![t] = "tm_fetch"]
            /\ UNCHANGED <<bearer, tmGiven, result>>
       ELSE /\ TMReturn(t, ReturnedAccessToken(token_info, token_info),
                        token_info.access_token)
            /\ UNCHANGED <<lock, fetchStarted, post>>
    /\ emitted' = NoEmit
    /\ UNCHANGED <<uppervars, errorvars, handlevars, closevars, reqvars, callbacks,
                   requested, wait_time, config, now, token_info, calls, op, attempts,
                   last_error, prevBearer, tmCalls, sent, slept, wake, answer, resp>>

\* client.post of _fetch_token comes back: the auth endpoint answered o, or
\* the transport failed
TMAnswer(t, o) ==
    /\ pc[t] = "tm_fetch"
    /\ answer' = [answer EXCEPT ![t] = o]
    /\ pc' = [pc EXCEPT ![t] = "tm_handle"]
    /\ emitted' = NoEmit
    /\ UNCHANGED <<uppervars, errorvars, handlevars, closevars, reqvars, callbacks,
                   requested, wait_time, config, now, tmvars, post, calls, op, attempts,
                   last_error, bearer, prevBearer, tmCalls, tmGiven, sent, slept, wake,
                   resp, result>>

\* get_access_token that leaves the lock taken when the fetch fails
TMHandle_holds(t) ==
    /\ pc[t] = "tm_handle"
    /\ lock' = IF TokenFetchError(answer[t]) = "" THEN NoThread ELSE t
    /\ answer' = [answer EXCEPT ![t] = NoAnswer]
    /\ LET o   == answer[t]
           err == TokenFetchError(o)
           ti  == IF err = "" THEN NewTokenInfo(o, post[t], now) ELSE token_info
       IN  /\ token_info' = ti
           /\ IF err = ""
              THEN TMReturn(t, ReturnedAccessToken(token_info, ti), ti.access_token)
              ELSE TMRaise(t, err, IF o.kind = "response" THEN "" ELSE o.kind)
    /\ emitted' = NoEmit
    /\ UNCHANGED <<uppervars, errorvars, handlevars, closevars, reqvars, callbacks,
                   requested, wait_time, config, now, fetchStarted, post, calls, op,
                   attempts, last_error, prevBearer, tmCalls, sent, slept, wake, resp>>

\* _handle_token_response and the except clauses of _fetch_token, then the
\* return of get_access_token; the lock is released on the way out.  The
\* access token of the answer is the number of the POST it answers.
TMHandle(t) ==
    /\ pc[t] = "tm_handle"
    /\ lock' = NoThread
    /\ answer' = [answer EXCEPT ![t] = NoAnswer]
    /\ LET o   == answer[t]
           err == TokenFetchError(o)
           ti  == IF err = "" THEN NewTokenInfo(o, post[t], now) ELSE token_info
       IN  /\ token_info' = ti
           /\ IF err = ""
              THEN TMReturn(t, ReturnedAccessToken(token_info, ti), ti.access_token)
              ELSE TMRaise(t, err, IF o.kind = "response" THEN "" ELSE o.kind)
    /\ emitted' = NoEmit
    /\ UNCHANGED <<uppervars, errorvars, handlevars, closevars, reqvars, callbacks,
                   requested, wait_time, config, now, fetchStarted, post, calls, op,
                   attempts, last_error, prevBearer, tmCalls, sent, slept, wake, resp>>

\* client.request is issued with the bearer token and comes back with o
Transport(t, o) ==
    /\ pc[t] = "send"
    /\ sent' = [sent EXCEPT ![t] = @ + 1]
    /\ x_request_id' = [x_request_id EXCEPT ![t] = request_id[t]]
    /\ resp' = [resp EXCEPT ![t] = o]
    /\ pc' = [pc EXCEPT ![t] = "handle"]
    /\ emitted' = NoEmit
    /\ UNCHANGED <<uppervars, errorvars, handlevars, closevars, request_id, using,
                   callbacks, requested, wait_time, config, now, tmvars, post, calls, op,
                   attempts, last_error, bearer, prevBearer, tmCalls, tmGiven, slept,
                   wake, answer, result>>

\* a retry is due: time.sleep(wait)
GoSleep(t, wait) ==
    /\ slept' = [slept EXCEPT ![t] = @ + 1]
    /\ wake' = [wake EXCEPT ![t] = now + wait]
    /\ wait_time' = [wait_time EXCEPT ![t] = WaitTime(attempts[t], wait)]
    /\ pc' = [pc EXCEPT ![t] = "sleep"]
    /\ UNCHANGED result

\* the call ends with r
Finish(t, r) ==
    /\ result' = [result EXCEPT ![t] = r]
    /\ pc' = [pc EXCEPT ![t] = "done"]
    /\ UNCHANGED <<slept, wake, wait_time>>

\* the rest of the try statement of _request for the outcome of
\* client.request; backoff is the value _calculate_backoff gives.  A response
\* is announced with emit_response before _handle_response, a transport
\* failure with emit_error inside its except clause, after last_error is set;
\* an exception of client.request that no except clause names leaves
\* _request as it is, with no event; an exception that leaves emit_* ends
\* the call
Handle(t, backoff) ==
    /\ pc[t] = "handle"
    /\ resp' = [resp EXCEPT ![t] = NoResp]
    /\ LET o      == resp[t]
           exc    == TryBodyRaises(o)
           clause == CaughtBy(exc)
           retry  == RetryAllowed(attempts[t], config.max_retries)
           event  == TelemetryEvent(o)
           obs    == IF config.telemetry_enabled /\ event # ""
                     THEN EmitRaises(callbacks[event]) ELSE ""
       IN  /\ emitted' = IF config.telemetry_enabled /\ event # ""
                         THEN Emitted(t, event, callbacks[event]) ELSE NoEmit
           /\ CASE obs # "" ->
                  /\ Finish(t, Raised(obs, 0, -1, ""))
                  /\ last_error' = [last_error EXCEPT ![t] =
                         IF event = "error" THEN WrapTransportError(clause, exc) ELSE @]
             [] obs = "" /\ exc = "" ->
                  /\ Finish(t, Payload(o))
                  /\ UNCHANGED last_error
             [] obs = "" /\ clause \in {"timeout", "connect"} ->
                  /\ last_error' = [last_error EXCEPT ![t] = WrapTransportError(clause, exc)]
                  /\ IF retry THEN GoSleep(t, backoff)
                     ELSE Finish(t, Raised(WrapTransportError(clause, exc).kind, 0, -1,
                                           WrapTransportError(clause, exc).cause))
             [] obs = "" /\ clause = "status" ->
                  /\ UNCHANGED last_error
                  /\ IF o.status \in RETRYABLE_STATUS_CODES /\ retry
                     THEN GoSleep(t, IF o.retry_after # "" /\ RetryAfterIsNumeric(o.retry_after)
                                     THEN RetryAfterFloat(o.retry_after)
                                     ELSE backoff)
                     ELSE Finish(t, ErrorFromResponse(o.status, o.retry_after))
             [] obs = "" /\ clause = "" /\ o.kind # "response" ->
                  /\ UNCHANGED last_error
                  /\ Finish(t, Raised(exc, 0, -1, ""))
             [] OTHER ->
                  /\ UNCHANGED last_error
                  /\ Finish(t, ErrorFromResponse(o.status, o.retry_after))
    /\ UNCHANGED <<uppervars, errorvars, handlevars, closevars, reqvars, callbacks,
                   requested, config, now, tmvars, post, calls, op, attempts, bearer,
                   prevBearer, tmCalls, tmGiven, sent, answer>>

\* time.sleep returns; continue
Wake(t) ==
    /\ pc[t] = "sleep"
    /\ now >= wake[t]
    /\ pc' = [pc EXCEPT ![t] = "loop"]
    /\ emitted' = NoEmit
    /\ UNCHANGED <<uppervars, errorvars, handlevars, closevars, reqvars, callbacks,
                   requested, wait_time, config, now, tmvars, post, calls, op, attempts,
                   last_error, bearer, prevBearer, tmCalls, tmGiven, sent, slept, wake,
                   answer, resp, result>>

\* one second passes
Tick ==
    /\ now < MaxTime
    /\ now' = now + 1
    /\ emitted' = NoEmit
    /\ UNCHANGED <<uppervars, errorvars, handlevars, closevars, reqvars, callbacks,
                   requested, wait_time, config, tmvars, post, calls, pc, op, attempts,
                   last_error, bearer, prevBearer, tmCalls, tmGiven, sent, slept, wake,
                   answer, resp, result>>

\* the callers followed by Spec
Callers == {1}

Next ==
    \/ \E t \in Callers : StartRequest(t)
    \/ \E t \in Callers : LoopHead(t)
    \/ \E t \in Callers : NewClient(t)
    \/ \E t \in Callers : TMEnter(t)
    \/ \E t \in Callers : \E o \in AuthOutcomes : TMAnswer(t, o)
    \/ \E t \in Callers : TMHandle(t)
    \/ \E t \in Callers : \E o \in ApiOutcomes : Transport(t, o)
    \/ \E t \in Callers : \E b \in BackoffValues(attempts[t]) : Handle(t, b)
    \/ \E t \in Callers : Wake(t)
    \/ Tick

Spec == Init /\ [][Next]_vars

\* several threads call get_access_token() on one TokenManager
InitTM == Init /\ config.max_retries = 0

NextTM ==
    \/ \E t \in Threads : StartTokenCall(t)
    \/ \E t \in Threads : TMEnter(t)
    \/ \E t \in Threads : \E o \in AuthOutcomes : TMAnswer(t, o)
    \/ \E t \in Threads : TMHandle(t)
    \/ Tick

SpecTM == InitTM /\ [][NextTM]_vars

\* ------------------------------------------------------ Cache actions
\* a call of thread t that takes a single step returns r
Return(t, o, r) ==
    /\ cpc[t] = "idle"
    /\ calls < MaxOps
    /\ calls' = calls + 1
    /\ ret' = Ended(t, o, r)
    /\ UNCHANGED <<cpc, cop, loaded>>

\* Cache.get(key)
Get(t, key) ==
    /\ Return(t, CacheCall("get", key, NoneValue, TtlNone),
              RetValue(CacheGet(store, key, now)))
    /\ store' = StoreAfterGet(store, key, now)
    /\ UNCHANGED <<config, now, connvars, written, rendervars>>

\* Cache.has(key)
Has(t, key) ==
    /\ Return(t, CacheCall("has", key, NoneValue, TtlNone),
              RetFlag(CacheHas(store, key, now)))
    /\ store' = StoreAfterGet(store, key, now)
    /\ UNCHANGED <<config, now, connvars, written, rendervars>>

\* Cache.set(key, value, ttl)
Set(t, key, value, ttl) ==
    /\ Return(t, CacheCall("set", key, value, ttl), RetNothing)
    /\ store' = CacheSet(store, key, value, ttl, now, config.cache_ttl)
    /\ written' = Put(written, key, Written(value, ttl, now))
    /\ UNCHANGED <<config, now, connvars, rendervars>>

\* Cache.delete(key)
Delete(t, key) ==
    /\ Return(t, CacheCall("delete", key, NoneValue, TtlNone),
              RetFlag(CacheDelete(store, key)))
    /\ store' = Remove(store, {key})
    /\ written' = Remove(written, {key})
    /\ UNCHANGED <<config, now, connvars, rendervars>>

\* Cache.clear()
Clear(t) ==
    /\ Return(t, CacheCall("clear", "", NoneValue, TtlNone), RetNothing)
    /\ store' = <<>>
    /\ written' = <<>>
    /\ UNCHANGED <<config, now, connvars, rendervars>>

\* Cache.size
Size(t) ==
    /\ Return(t, CacheCall("size", "", NoneValue, TtlNone),
              RetCount(CacheSize(store, now)))
    /\ store' = StoreAfterSize(store, now)
    /\ UNCHANGED <<config, now, connvars, written, rendervars>>

\* Cache.keys()
Keys(t) ==
    /\ Return(t, CacheCall("keys", "", NoneValue, TtlNone),
              RetKeys(CacheKeys(store, now)))
    /\ store' = StoreAfterKeys(store, now)
    /\ UNCHANGED <<config, now, connvars, written, rendervars>>

\* the call o of thread t ends with r; its locals are gone
End(t, o, r) ==
    /\ cpc' = [cpc EXCEPT ![t] = "idle"]
    /\ cop' = [cop EXCEPT ![t] = NoOp]
    /\ loaded' = [loaded EXCEPT ![t] = NoneValue]
    /\ ret' = Ended(t, o, r)

\* the value a lookup or fetch o obtained goes back to the caller;
\* render_prompt still has to render it
Obtained(t, o, value) ==
    IF o.name = "render_prompt"
    THEN /\ cpc' = [cpc EXCEPT ![t] = "rendering"]
         /\ cop' = [cop EXCEPT ![t] = o]
         /\ loaded' = [loaded EXCEPT ![t] = value]
         /\ ret' = NoReturn
    ELSE End(t, o, RetValue(value))

\* Cache.fetch up to the call of the loader: self.get(key), then either the
\* cached value is returned or func() is entered
FetchEnter(t, o) ==
    /\ store' = StoreAfterGet(store, o.key, now)
    /\ IF FetchHit(CacheGet(store, o.key, now))
       THEN Obtained(t, o, CacheGet(store, o.key, now))
       ELSE /\ cpc' = [cpc EXCEPT ![t] = "loading"]
            /\ cop' = [cop EXCEPT ![t] = o]
            /\ ret' = NoReturn
            /\ UNCHANGED loaded

\* Cache.fetch(key, func, ttl)
Fetch(t, key, ttl) ==
    /\ cpc[t] = "idle"
    /\ calls < MaxOps
    /\ calls' = calls + 1
    /\ FetchEnter(t, CacheCall("fetch", key, NoneValue, ttl))
    /\ UNCHANGED <<config, now, connvars, written, rendervars>>

\* fetch that stores a placeholder for the key when the loader raises
LoaderEnds_caches(t, out) ==
    /\ UNCHANGED <<calls, written>>
    /\ IF out.raises
       THEN /\ End(t, cop[t], RaisedWith(out.error))
            /\ store' = CacheSet(store, cop[t].key, Value(0), cop[t].ttl, now,
                                 config.cache_ttl)
       ELSE /\ UNCHANGED store
            /\ IF UseCache(cop[t].use_cache, config.cache_enabled)
               THEN /\ loaded' = [loaded EXCEPT ![t] = out.value]
                    /\ cpc' = [cpc EXCEPT ![t] = "storing"]
                    /\ ret' = NoReturn
                    /\ UNCHANGED cop
               ELSE Obtained(t, cop[t], out.value)

\* the loader ended with out: an exception leaves fetch_func or Cache.fetch;
\* a value goes to Cache.set when the cache is in use and straight back to
\* the caller when it is not
LoaderEnds(t, out) ==
    /\ UNCHANGED <<calls, store, written>>
    /\ IF out.raises
       THEN End(t, cop[t], RaisedWith(out.error))
       ELSE IF UseCache(cop[t].use_cache, config.cache_enabled)
       THEN /\ loaded' = [loaded EXCEPT ![t] = out.value]
            /\ cpc' = [cpc EXCEPT ![t] = "storing"]
            /\ ret' = NoReturn
            /\ UNCHANGED cop
       ELSE Obtained(t, cop[t], out.value)

\* func() of Cache.fetch returns or raises
LoaderReturns(t, out) ==
    /\ cpc[t] = "loading"
    /\ cop[t].name = "fetch"
    /\ LoaderEnds(t, out)
    /\ UNCHANGED <<config, now, connvars, rendervars>>

\* the end of Cache.fetch: self.set(key, value, ttl=ttl); return value
FetchStore(t) ==
    /\ cpc[t] = "storing"
    /\ store' = CacheSet(store, cop[t].key, loaded[t], cop[t].ttl, now, config.cache_ttl)
    /\ written' = Put(written, cop[t].key, Written(loaded[t], cop[t].ttl, now))
    /\ Obtained(t, cop[t], loaded[t])
    /\ UNCHANGED <<config, now, connvars, calls, rendervars>>

\* ------------------------------------------------ ScopeClient actions
\* get_prompt, get_prompt_latest, get_prompt_production, get_prompt_version
\* or render_prompt up to the call of Connection.get: _fetch_with_cache
\* either calls fetch_func directly or goes through Cache.fetch
Lookup(t, name, lookup, prompt_id, version_id, use_cache, ttl) ==
    /\ cpc[t] = "idle"
    /\ calls < MaxOps
    /\ calls' = calls + 1
    /\ IF UseCache(use_cache, config.cache_enabled)
       THEN FetchEnter(t, ClientCall(name, lookup, prompt_id, version_id, use_cache, ttl))
       ELSE /\ cpc' = [cpc EXCEPT ![t] = "loading"]
            /\ cop' = [cop EXCEPT ![t] =
                   ClientCall(name, lookup, prompt_id, version_id, use_cache, ttl)]
            /\ ret' = NoReturn
            /\ UNCHANGED <<store, loaded>>
    /\ UNCHANGED <<config, now, connvars, written, rendervars>>

\* self._connection.get(path) inside fetch() ends, the last attempt of
\* _request having had outcome o, and the rest of fetch() runs: the resource
\* is built from the data, or the exception leaves the closure.  The data
\* of an answer is the number of the call that asked for it.
ConnectionReturns(t, o) ==
    /\ cpc[t] = "loading"
    /\ cop[t].name # "fetch"
    /\ LoaderEnds(t, FetchFunc(cop[t].lookup, cop[t].prompt_id, ConnectionGet(o), calls))
    /\ UNCHANGED <<config, now, connvars, rendervars>>

\* render_prompt: prompt_version.render(**variables) ends with r
PromptRender(t, r) ==
    /\ cpc[t] = "rendering"
    /\ End(t, cop[t], IF r = "" THEN RetValue(Resource("str", loaded[t].id, loaded[t].data))
                      ELSE RaisedWith(Raised(r, 0, -1, "")))
    /\ UNCHANGED <<config, now, connvars, calls, store, written, rendervars>>

\* time passes in the life of a cache: one second, up to MaxAge
Elapse ==
    /\ now < MaxAge
    /\ now' = now + 1
    /\ ret' = NoReturn
    /\ UNCHANGED <<config, connvars, calls, store, cpc, cop, loaded, written, rendervars>>

\* ---------------------------------------------------- Renderer actions
\* renderer.render(**values)
RenderCall(values) ==
    /\ rpc \in {"ready", "rendered"}
    /\ rpc' = "rendered"
    /\ supplied' = values
    /\ rendered' = Render(content, declared, values)
    /\ UNCHANGED <<config, now, connvars, calls, cachevars, content, declared>>

\* ------------------------------------------------------ specifications
\* several threads fetch from one Cache(ttl=config.cache_ttl); the methods
\* that run under the lock from beginning to end are called by one of them
Fetchers == {1, 2}
KeyNames == {"k1", "k2"}
LoaderValues == {NoneValue, Value(1), Value(2)}
TtlValues == {TtlNone, 0, 2}
LoaderOutcomes ==
    {Loaded(v) : v \in LoaderValues} \cup {LoaderRaised(Raised("RuntimeError", 0, -1, ""))}

InitCache ==
    /\ config = Configuration(0, TRUE)
    /\ Constructed
    /\ NothingClassified
    /\ NoCallbacks
    /\ NoRenderer

NextCache ==
    \/ \E t \in Callers : \E k \in KeyNames : Get(t, k)
    \/ \E t \in Callers : \E k \in KeyNames : Has(t, k)
    \/ \E t \in Callers : \E k \in KeyNames : \E v \in LoaderValues : \E ttl \in TtlValues :
           Set(t, k, v, ttl)
    \/ \E t \in Callers : \E k \in KeyNames : Delete(t, k)
    \/ \E t \in Callers : Clear(t)
    \/ \E t \in Callers : Size(t)
    \/ \E t \in Callers : Keys(t)
    \/ \E t \in Fetchers : \E k \in KeyNames : \E ttl \in TtlValues : Fetch(t, k, ttl)
    \/ \E t \in Fetchers : \E out \in LoaderOutcomes : LoaderReturns(t, out)
    \/ \E t \in Fetchers : FetchStore(t)
    \/ Elapse

SpecCache == InitCache /\ [][NextCache]_vars

\* one caller uses a ScopeClient; its Connection is seen through the outcome
\* of the last attempt of each request.  No time passes between the calls:
\* an entry stored with cache_ttl=0 is the expired one.
PromptIds == {"p", "p:latest"}
VersionIds == {"v1"}
Lookups == {"get_prompt", "get_prompt_latest", "get_prompt_production",
            "get_prompt_version"}
RenderVersions == {"production", "latest"} \cup VersionIds
CacheTtlOptions == {TtlNone, 0}
ClientApiOutcomes ==
    {o \in ApiOutcomes : o.status \in {0, 200, 401, 404, 500}}
RenderErrors == {"", "MissingVariableError"}

InitClient ==
    /\ config \in {Configuration(0, e) : e \in BOOLEAN}
    /\ Constructed
    /\ NothingClassified
    /\ NoCallbacks
    /\ NoRenderer

NextClient ==
    \/ \E t \in Callers : \E l \in Lookups : \E id \in PromptIds : \E v \in VersionIds :
       \E c \in BOOLEAN : \E ttl \in CacheTtlOptions : Lookup(t, l, l, id, v, c, ttl)
    \/ \E t \in Callers : \E id \in PromptIds : \E v \in RenderVersions :
       \E c \in BOOLEAN :
           Lookup(t, "render_prompt", RenderPromptLookup(v), id, v, c, TtlNone)
    \/ \E t \in Callers : \E o \in ClientApiOutcomes : ConnectionReturns(t, o)
    \/ \E t \in Callers : FetchStore(t)
    \/ \E t \in Callers : \E r \in RenderErrors : PromptRender(t, r)

SpecClient == InitClient /\ [][NextClient]_vars

\* one Renderer(content, declared_variables) is rendered with the values of
\* a call
SeqsUpTo(S, n) == UNION {[1..k -> S] : k \in 0..n}
Tokens == {"Hi"} \cup {Placeholder(n) : n \in VariableNames}
Templates == SeqsUpTo(Tokens, MaxLen)
RenderValues == {<<"x">>} \cup {<<Placeholder(n)>> : n \in VariableNames}
KeywordArguments ==
    {a \in SeqsUpTo(VariableNames \X RenderValues, Cardinality(VariableNames)) :
        \A i, j \in DOMAIN a : a[i][1] = a[j][1] => i = j}

InitRender ==
    /\ config = Configuration(0, TRUE)
    /\ Constructed
    /\ NothingClassified
    /\ NoCallbacks
    /\ rpc = "ready"
    /\ content \in Templates
    /\ declared \in {DeclaredNone} \cup {Declared(N) : N \in SUBSET VariableNames}
    /\ supplied = <<>>
    /\ rendered = NotRendered

NextRender ==
    \/ \E values \in KeywordArguments : RenderCall(values)

SpecRender == InitRender /\ [][NextRender]_vars

\* one caller whose requests fail in the transport or succeed, the token
\* being granted for 300 s; the cap retry_max_delay is the base delay or
\* twice the base delay
RetryAuthOutcomes == {o \in AuthOutcomes : o.status = 200 /\ o.expires_in = -1}
RetryApiOutcomes ==
    {o \in ApiOutcomes : o.kind \in {"timeout", "connect"} \/ (o.status = 200 /\ o.content # "")}

InitRetry ==
    /\ config \in {[Configuration(MaxRetriesBound, TRUE) EXCEPT !.retry_max_delay = m] :
                      m \in {4, 8}}
    /\ Constructed
    /\ NothingClassified
    /\ NoCallbacks
    /\ NoRenderer

NextRetry ==
    \/ \E t \in Callers : StartRequest(t)
    \/ \E t \in Callers : LoopHead(t)
    \/ \E t \in Callers : NewClient(t)
    \/ \E t \in Callers : TMEnter(t)
    \/ \E t \in Callers : \E o \in RetryAuthOutcomes : TMAnswer(t, o)
    \/ \E t \in Callers : TMHandle(t)
    \/ \E t \in Callers : \E o \in RetryApiOutcomes : Transport(t, o)
    \/ \E t \in Callers : \E b \in BackoffValues(attempts[t]) : Handle(t, b)
    \/ \E t \in Callers : Wake(t)
    \/ Tick

SpecRetry == InitRetry /\ [][NextRetry]_vars

\* several threads issue requests on one Connection that is never closed,
\* with telemetry enabled or not; the token is granted for 300 s, a request
\* succeeds or fails to connect and is not retried
HandleApiOutcomes ==
    {o \in ApiOutcomes : o.kind = "connect" \/ (o.status = 200 /\ o.content # "")}

InitHandle ==
    /\ config \in {[Configuration(0, TRUE) EXCEPT !.telemetry_enabled = e] : e \in BOOLEAN}
    /\ Constructed
    /\ NothingClassified
    /\ NoCallbacks
    /\ NoRenderer

NextHandle ==
    \/ \E t \in Threads : StartRequest(t)
    \/ \E t \in Threads : LoopHead(t)
    \/ \E t \in Threads : NewClient(t)
    \/ \E t \in Threads : TMEnter(t)
    \/ \E t \in Threads : \E o \in RetryAuthOutcomes : TMAnswer(t, o)
    \/ \E t \in Threads : TMHandle(t)
    \/ \E t \in Threads : \E o \in HandleApiOutcomes : Transport(t, o)
    \/ \E t \in Threads : \E b \in BackoffValues(attempts[t]) : Handle(t, b)

SpecHandle == InitHandle /\ [][NextHandle]_vars

\* Telemetry.on_request / on_response / on_error: a callback is appended to
\* the list of its event
Register(event, cb) ==
    /\ Len(callbacks.request) + Len(callbacks.response) + Len(callbacks.error) < MaxObservers
    /\ callbacks' = [callbacks EXCEPT ![event] = Append(@, cb)]
    /\ emitted' = NoEmit
    /\ UNCHANGED <<uppervars, errorvars, handlevars, closevars, reqvars, requested,
                   wait_time, config, now, tmvars, post, calls, pc, op, attempts,
                   last_error, bearer, prevBearer, tmCalls, tmGiven, sent, slept, wake,
                   answer, resp, result>>

\* what a registered callback does when it is called
ObserverBehaviours == {"returns"} \cup ExceptionClasses

\* the events of Telemetry
TelemetryEvents == {"request", "response", "error"}

\* one caller whose requests fail in the transport, succeed or are answered
\* 404, with one retry and telemetry enabled, while callbacks are registered;
\* the token is granted for 300 s
TelemetryApiOutcomes ==
    {o \in ApiOutcomes : \/ o.kind \in {"timeout", "connect"}
                         \/ (o.status = 200 /\ o.content # "")
                         \/ o.status = 404}

InitTelemetry ==
    /\ config = Configuration(1, TRUE)
    /\ Constructed
    /\ NothingClassified
    /\ NoCallbacks
    /\ NoRenderer

NextTelemetry ==
    \/ \E event \in TelemetryEvents : \E cb \in ObserverBehaviours : Register(event, cb)
    \/ \E t \in Callers : StartRequest(t)
    \/ \E t \in Callers : LoopHead(t)
    \/ \E t \in Callers : NewClient(t)
    \/ \E t \in Callers : TMEnter(t)
    \/ \E t \in Callers : \E o \in RetryAuthOutcomes : TMAnswer(t, o)
    \/ \E t \in Callers : TMHandle(t)
    \/ \E t \in Callers : \E o \in TelemetryApiOutcomes : Transport(t, o)
    \/ \E t \in Callers : \E b \in BackoffValues(attempts[t]) : Handle(t, b)
    \/ \E t \in Callers : Wake(t)
    \/ Tick

SpecTelemetry == InitTelemetry /\ [][NextTelemetry]_vars

\* ---- Connection calls run to their end ----

\* time.sleep(wait) returns: the clock has reached the time of waking (the
\* clock of the model stops at MaxTime)
SleepReturns(t) ==
    /\ pc[t] = "sleep"
    /\ now' = Min(MaxTime, IF wake[t] > now THEN wake[t] ELSE now)
    /\ pc' = [pc EXCEPT ![t] = "loop"]
    /\ emitted' = NoEmit
    /\ UNCHANGED <<uppervars, errorvars, handlevars, closevars, reqvars, callbacks,
                   requested, wait_time, config, tmvars, post, calls, op, attempts,
                   last_error, bearer, prevBearer, tmCalls, tmGiven, sent, slept, wake,
                   answer, resp, result>>

\* one caller, every max_retries, telemetry enabled or not, every outcome of
\* client.request, the failures that no except clause of _request names
\* included; the token endpoint grants a token for 300 s or fails
CallsAuthOutcomes == {o \in AuthOutcomes : o.expires_in = -1}

\* client.request fails with an httpx exception that is neither a
\* TimeoutException nor a ConnectError: the connection breaks while the
\* response is read
ReadFailure == [kind |-> "read", status |-> 0, retry_after |-> "", content |-> ""]

CallsApiOutcomes == ApiOutcomes \cup {ReadFailure}

InitCalls ==
    /\ config \in {[Configuration(m, TRUE) EXCEPT !.telemetry_enabled = e] :
                      m \in (0 - 1)..MaxRetriesBound, e \in BOOLEAN}
    /\ Constructed
    /\ NothingClassified
    /\ NoCallbacks
    /\ NoRenderer

\* the steps of a running call of thread t; client.request, client.post and
\* time.sleep come back
CallStep(t) ==
    \/ LoopHead(t)
    \/ NewClient(t)
    \/ TMEnter(t)
    \/ \E o \in CallsAuthOutcomes : TMAnswer(t, o)
    \/ TMHandle(t)
    \/ \E o \in CallsApiOutcomes : Transport(t, o)
    \/ \E b \in BackoffValues(attempts[t]) : Handle(t, b)
    \/ SleepReturns(t)

NextCalls ==
    \/ \E t \in Callers : StartRequest(t)
    \/ \E t \in Callers : LoopHead(t)
    \/ \E t \in Callers : NewClient(t)
    \/ \E t \in Callers : TMEnter(t)
    \/ \E t \in Callers : \E o \in CallsAuthOutcomes : TMAnswer(t, o)
    \/ \E t \in Callers : TMHandle(t)
    \/ \E t \in Callers : \E o \in CallsApiOutcomes : Transport(t, o)
    \/ \E t \in Callers : \E b \in BackoffValues(attempts[t]) : Handle(t, b)
    \/ \E t \in Callers : SleepReturns(t)

\* a thread inside a call keeps running, and what it waits for comes back
SpecCalls == InitCalls /\ [][NextCalls]_vars /\ \A t \in Callers : WF_vars(CallStep(t))

\* ---- Connection.close ----

\* close() that closes the handle and keeps it in _client
Close_keeps ==
    /\ \A t \in Callers : pc[t] \in {"idle", "done"}
    /\ closes < MaxCloses
    /\ closes' = closes + 1
    /\ closed' = IF client # 0 THEN closed \cup {client} ELSE closed
    /\ emitted' = NoEmit
    /\ UNCHANGED <<uppervars, errorvars, handlevars, reqvars, callbacks, requested,
                   wait_time, config, now, tmvars, post, calls, pc, op, attempts,
                   last_error, bearer, prevBearer, tmCalls, tmGiven, sent, slept, wake,
                   answer, resp, result>>

\* the owner calls Connection.close() (or leaves the with block) between its
\* requests: the handle, if there is one, is closed and _client becomes None
Close ==
    /\ \A t \in Callers : pc[t] \in {"idle", "done"}
    /\ closes < MaxCloses
    /\ closes' = closes + 1
    /\ closed' = IF client # 0 THEN closed \cup {client} ELSE closed
    /\ client' = 0
    /\ emitted' = NoEmit
    /\ UNCHANGED <<uppervars, errorvars, handles, reqvars, callbacks, requested,
                   wait_time, config, now, tmvars, post, calls, pc, op, attempts,
                   last_error, bearer, prevBearer, tmCalls, tmGiven, sent, slept, wake,
                   answer, resp, result>>

\* one owner issues requests and closes the Connection between them; the
\* token is granted for 300 s, a request succeeds or fails to connect and is
\* retried once at most
InitClose ==
    /\ config \in {Configuration(m, TRUE) : m \in 0..1}
    /\ Constructed
    /\ NothingClassified
    /\ NoCallbacks
    /\ NoRenderer

NextClose ==
    \/ \E t \in Callers : StartRequest(t)
    \/ \E t \in Callers : LoopHead(t)
    \/ \E t \in Callers : NewClient(t)
    \/ \E t \in Callers : TMEnter(t)
    \/ \E t \in Callers : \E o \in RetryAuthOutcomes : TMAnswer(t, o)
    \/ \E t \in Callers : TMHandle(t)
    \/ \E t \in Callers : \E o \in HandleApiOutcomes : Transport(t, o)
    \/ \E t \in Callers : \E b \in BackoffValues(attempts[t]) : Handle(t, b)
    \/ \E t \in Callers : SleepReturns(t)
    \/ Close

SpecClose == InitClose /\ [][NextClose]_vars

\* Connection._calculate_backoff(attempt) is called on a Connection whose
\* Configuration has any two positive delays
BackoffCall(t, attempt, jitter) ==
    /\ wait_time' = [wait_time EXCEPT ![t] = WaitTime(attempt, CalculateBackoff(attempt, jitter))]
    /\ UNCHANGED <<uppervars, errorvars, handlevars, closevars, reqvars, telvars, config,
                   now, tmvars, post, calls, pc, op, attempts, last_error, bearer,
                   prevBearer, tmCalls, tmGiven, sent, slept, wake, answer, resp, result>>

Delays == 1..MaxDelay

InitBackoff ==
    /\ config \in {[Configuration(0, TRUE) EXCEPT !.retry_base_delay = b,
                                                  !.retry_max_delay = m] :
                      b \in Delays, m \in Delays}
    /\ Constructed
    /\ NothingClassified
    /\ NoCallbacks
    /\ NoRenderer

NextBackoff ==
    \/ \E t \in Callers : \E a \in 1..MaxAttempt :
       \E j \in Jitter(config.retry_base_delay * Pow2(a - 1)) : BackoffCall(t, a, j)

SpecBackoff == InitBackoff /\ [][NextBackoff]_vars

\* Connection._error_from_response(response) for a response with status >= 400
ErrorFromResponseCall ==
    /\ api_error = NoApiError
    /\ api_error' = ConnectionErrorFromResponse(response)
    /\ UNCHANGED <<uppervars, handlevars, closevars, reqvars, telvars, response, config,
                   now, tmvars, post, calls, pc, op, attempts, last_error, bearer,
                   prevBearer, tmCalls, tmGiven, sent, slept, wake, answer, resp, result,
                   wait_time>>

\* the responses _handle_response hands over: any status from 400 on, any
\* body, with or without the two headers
ErrorResponseStatuses == {400, 401, 403, 404, 409, 418, 429, 499, 500, 503, 599, 600}
ErrorBodies == {"", BodyNoJson, BodyList, BodyEmptyObject, BodyErrorString, BodyErrorCode,
                BodyErrorFull}
RequestIdHeaders == {"", "req-1"}
ErrorRetryAfterHeaders == RetryAfterHeaders \cup {"0", "1.5"}

InitErrors ==
    /\ config = Configuration(0, TRUE)
    /\ Constructed
    /\ NoRenderer
    /\ NoCallbacks
    /\ api_error = NoApiError
    /\ response \in {Response(s, b, id, h) :
                        s \in ErrorResponseStatuses, b \in ErrorBodies,
                        id \in RequestIdHeaders, h \in ErrorRetryAfterHeaders}

NextErrors ==
    \/ ErrorFromResponseCall

SpecErrors == InitErrors /\ [][NextErrors]_vars

\* ================================================================ claims
\* thread t takes the step that handles the outcome of its HTTP request
Handles(t) == pc[t] = "handle" /\ pc'[t] # "handle"

ServerStatuses == {500, 502, 503, 504}

\* the backoff wait w lies within 25% of base * 2^(attempt-1) and below the cap
BackoffLike(w, attempt) ==
    LET d == config.retry_base_delay * Pow2(attempt - 1)
    IN  /\ 4 * w >= 3 * Min(d, config.retry_max_delay)
        /\ 4 * w <= 5 * d
        /\ w <= config.retry_max_delay

\* the error kind the taxonomy gives a status
KindOfStatus(status) ==
    CASE status = 401 -> "AuthenticationError"
      [] status = 403 -> "AuthorizationError"
      [] status = 404 -> "NotFoundError"
      [] status = 409 -> "ConflictError"
      [] status = 429 -> "RateLimitError"
      [] status \in 500..599 -> "ServerError"
      [] OTHER -> "ApiError"

\* C1: a 500/502/503/504 response is retried while attempts remain (a wait,
\* then a further attempt), so that a call answered only by such responses
\* makes max_retries + 1 attempts; only the response to the last attempt
\* fails the call, with a ServerError carrying the status.
C1_ServerErrorsAreRetried ==
    [][\A t \in Threads :
        (Handles(t) /\ resp[t].kind = "response" /\ resp[t].status \in ServerStatuses)
        => IF attempts[t] <= config.max_retries
           THEN pc'[t] = "sleep" /\ slept'[t] = slept[t] + 1
           ELSE /\ result'[t].state = "raised"
                /\ result'[t].kind = "ServerError"
                /\ result'[t].status = resp[t].status]_vars

\* C2: a 429 response with a numeric Retry-After header, received while
\* attempts remain, makes the call sleep exactly the header value and go on
\* to a further attempt instead of raising RateLimitError.
C2_RetryAfterIsHonoured ==
    [][\A t \in Threads :
        (Handles(t) /\ resp[t].kind = "response" /\ resp[t].status = 429
            /\ resp[t].retry_after = "2" /\ attempts[t] <= config.max_retries)
        => /\ pc'[t] = "sleep"
           /\ wake'[t] = now + 2
           /\ result'[t].state = "none"]_vars

\* C3: a connect failure or timeout on an attempt with attempts remaining is
\* followed by a backoff sleep and a further attempt; on attempt
\* max_retries + 1 it fails the call with a ConnectionError wrapping the
\* cause (connect failure) or a TimeoutError wrapping it (timeout).
C3_TransportFailuresRetried ==
    [][\A t \in Threads :
        /\ (Handles(t) /\ resp[t].kind \in {"connect", "timeout"})
           => IF attempts[t] <= config.max_retries
              THEN /\ pc'[t] = "sleep"
                   /\ slept'[t] = slept[t] + 1
                   /\ BackoffLike(wake'[t] - now, attempts[t])
                   /\ result'[t].state = "none"
              ELSE /\ result'[t].state = "raised"
                   /\ pc'[t] = "done"
                   /\ resp[t].kind = "connect" =>
                        /\ result'[t].kind = "ConnectionError"
                        /\ result'[t].cause = "httpx.ConnectError"
                   /\ resp[t].kind = "timeout" =>
                        /\ result'[t].kind = "TimeoutError"
                        /\ result'[t].cause = "httpx.TimeoutException"
        /\ (pc[t] = "sleep" /\ pc'[t] # "sleep") => now >= wake[t] /\ pc'[t] = "loop"
        /\ (pc[t] = "loop" /\ pc'[t] # "loop" /\ slept[t] > 0)
           => /\ attempts'[t] = attempts[t] + 1
              /\ pc'[t] = "tm_wait"
              /\ result'[t].state = "none"]_vars

\* a call whose three attempts all failed in the transport, the last by timeout
C3_Witness ==
    \E t \in Threads :
        /\ pc[t] = "done" /\ op[t] = "request"
        /\ config.max_retries = 2 /\ sent[t] = 3 /\ slept[t] = 2
        /\ result[t].kind = "TimeoutError"

\* C4: a response with status >= 400 outside the retryable set ends the call
\* at once with the classified error: no sleep, no further request, whatever
\* max_retries is.
C4_OtherStatusesAreTerminal ==
    [][\A t \in Threads :
        /\ (Handles(t) /\ resp[t].kind = "response" /\ resp[t].status >= 400
               /\ resp[t].status \notin {429, 500, 502, 503, 504})
           => /\ pc'[t] = "done"
              /\ result'[t].state = "raised"
              /\ result'[t].kind = KindOfStatus(resp[t].status)
              /\ result'[t].status = resp[t].status
              /\ slept'[t] = slept[t]
              /\ sent'[t] = sent[t]
        /\ (pc[t] = "done" /\ pc'[t] = "done")
           => sent'[t] = sent[t] /\ slept'[t] = slept[t] /\ result'[t] = result[t]]_vars

\* a 404 on the first attempt ended a call that had two retries left
C4_Witness ==
    \E t \in Threads :
        /\ pc[t] = "done" /\ op[t] = "request"
        /\ config.max_retries = 2 /\ sent[t] = 1 /\ slept[t] = 0
        /\ result[t].kind = "NotFoundError"

TokenErrors == {"TokenRefreshError", "InvalidCredentialsError"}

\* C5: with max_retries >= 0 a call never issues more than max_retries + 1
\* HTTP requests, and a call that ended on the outcome of an HTTP request
\* (success, error status, connect failure, timeout) issued at least one.
C5_AttemptsBounded ==
    \A t \in Threads :
        (op[t] = "request" /\ config.max_retries >= 0)
        => /\ sent[t] <= config.max_retries + 1
           /\ attempts[t] <= config.max_retries + 1
           /\ (pc[t] = "done" /\ result[t].kind \notin TokenErrors) => sent[t] >= 1

\* a call that used all three attempts
C5_Witness ==
    \E t \in Threads :
        /\ pc[t] = "done" /\ op[t] = "request"
        /\ config.max_retries = 2 /\ sent[t] = 3

\* the error the taxonomy gives the outcome o of an attempt
ClassifiedAs(r, o) ==
    /\ r.state = "raised"
    /\ CASE o.kind = "connect" -> r.kind = "ConnectionError" /\ r.cause = "httpx.ConnectError"
         [] o.kind = "timeout" -> r.kind = "TimeoutError" /\ r.cause = "httpx.TimeoutException"
         [] OTHER -> r.kind = KindOfStatus(o.status) /\ r.status = o.status

GenericError == Raised("ConnectionError", 0, -1, "")

C10_TokenPerAttempt ==
    \A t \in Threads :
        (op[t] = "request" /\ pc[t] \in {"send", "handle"})
        => /\ tmCalls[t] = attempts[t]
           /\ bearer[t] = tmGiven[t]
           /\ bearer[t] # 0

\* the second attempt of a call sends token 2, refreshed after the first
\* attempt had sent token 1
C10_Witness ==
    \E t \in Threads :
        /\ op[t] = "request" /\ pc[t] = "handle"
        /\ attempts[t] = 2 /\ prevBearer[t] = 1 /\ bearer[t] = 2
        /\ token_info.access_token = 2

\* C7: threads calling get_access_token while no token is cached, the first
\* POST being answered 200 with a token that stays outside the refresh buffer
\* while they run: exactly one token fetch is made and every caller returns
\* that token.
C7_SingleFlight ==
    (/\ token_info.has /\ token_info.access_token = 1
     /\ now < token_info.expires_at - config.token_refresh_buffer)
    => /\ fetchStarted = 1
       /\ \A t \in Threads : pc[t] = "done" => result[t] = Returned("token", 1)

\* two threads called at the same second; one POST, both returned token 1
C7_Witness ==
    /\ now = 0 /\ fetchStarted = 1
    /\ \A t \in 1..2 : pc[t] = "done" /\ result[t] = Returned("token", 1)

\* C8: get_access_token sends a token fetch exactly when no token is cached
\* or now >= expires_at - token_refresh_buffer; otherwise it returns the
\* cached access token and fetches nothing.
C8_RefreshIffNeeded ==
    [][\A t \in Threads :
        (pc[t] = "tm_wait" /\ pc'[t] # "tm_wait")
        => IF ~token_info.has
              \/ now >= token_info.expires_at - config.token_refresh_buffer
           THEN pc'[t] = "tm_fetch" /\ fetchStarted' = fetchStarted + 1
           ELSE /\ fetchStarted' = fetchStarted
                /\ token_info' = token_info
                /\ pc'[t] = "done"
                /\ result'[t] = Returned("token", token_info.access_token)]_vars

\* a refresh is under way for a cached token that has just entered the buffer
C8_Witness ==
    \E t \in Threads :
        /\ pc[t] = "tm_fetch" /\ token_info.has
        /\ now = token_info.expires_at - config.token_refresh_buffer
        /\ fetchStarted = 2

\* C9: a token fetch is one attempt: 200 stores a TokenInfo with
\* expires_at = now + expires_in (300 when absent) and returns its token;
\* 401 and 403 raise InvalidCredentialsError; every other status, a connect
\* failure and a timeout raise TokenRefreshError; no further POST is sent.
C9_TokenFetchOutcome ==
    [][\A t \in Threads :
        (pc[t] = "tm_handle" /\ pc'[t] # "tm_handle")
        => /\ fetchStarted' = fetchStarted
           /\ pc'[t] = "done"
           /\ LET o == answer[t]
              IN  CASE o.kind = "response" /\ o.status = 200 ->
                         /\ token_info' = [has |-> TRUE, access_token |-> post[t],
                                expires_at |-> now + (IF o.expires_in = -1 THEN 300
                                                      ELSE o.expires_in)]
                         /\ result'[t] = Returned("token", post[t])
                    [] o.kind = "response" /\ o.status \in {401, 403} ->
                         /\ result'[t].state = "raised"
                         /\ result'[t].kind = "InvalidCredentialsError"
                    [] OTHER ->
                         /\ result'[t].state = "raised"
                         /\ result'[t].kind = "TokenRefreshError"]_vars

\* a 403 answer ended a call with InvalidCredentialsError after one POST
C9_Witness ==
    \E t \in Threads :
        /\ pc[t] = "done" /\ result[t].kind = "InvalidCredentialsError"
        /\ fetchStarted = 1 /\ calls = 1

\* ------------------------------------------------------- claims on Cache
\* the step just taken ended a call of method name on key k
Ret(name, k) == ret.call.name = name /\ ret.call.key = k

\* the TTL a set with override ttl is meant to give its entry
ClaimedTtl(ttl) == IF ttl = TtlNone THEN config.cache_ttl ELSE ttl

\* the instant an entry written as w is meant to expire
ClaimedExpiry(w) == w.at + ClaimedTtl(w.ttl)

\* C11: after set(k, v, ttl) with v not None at time t0 and no later set,
\* delete or clear of k, get(k) returns v at every time before t0 + ttl and
\* None from t0 + ttl on, ttl being the override if given and the default
\* TTL of the cache otherwise.
C11_GetAfterSet ==
    \A k \in KeyNames :
        (Ret("get", k) /\ k \in DOMAIN written /\ written[k].value # NoneValue) =>
            ret.result = RetValue(IF now < ClaimedExpiry(written[k])
                                  THEN written[k].value ELSE NoneValue)

\* get finds an entry gone at the very instant its override TTL ends
C11_Witness ==
    \E k \in KeyNames :
        /\ Ret("get", k)
        /\ k \in DOMAIN written
        /\ written[k].value # NoneValue
        /\ written[k].ttl = 2
        /\ now = written[k].at + 2
        /\ ret.result = RetValue(NoneValue)

\* an entry for key k is stored and has not expired
Unexpired(k) == k \in DOMAIN store /\ now < store[k].expires_at

\* thread t takes the first step of a fetch or lookup on key k
Fetches(t, k) ==
    /\ cpc[t] = "idle"
    /\ calls' = calls + 1
    /\ \/ cop'[t].name # "" /\ cop'[t].key = k
       \/ ret'.thread = t /\ ret'.call.name \notin {"", "get", "has", "set", "delete",
                                                    "clear", "size", "keys"}
          /\ ret'.call.key = k

\* thread t enters the loader
InvokesLoader(t) == cpc[t] # "loading" /\ cpc'[t] = "loading"

\* C12: a fetch of a key whose entry has not expired never invokes the
\* loader and returns the cached value, so that two fetches in a row, the
\* second within the TTL of what the first stored, invoke the loader once
\* and return the same value.
C12_FetchWithinTtlHits ==
    [][\A t \in Fetchers : \A k \in KeyNames :
          (Fetches(t, k) /\ Unexpired(k)) =>
              /\ ~InvokesLoader(t)
              /\ ret' = Ended(t, CacheCall("fetch", k, NoneValue, ret'.call.ttl),
                              RetValue(store[k].value))]_vars

\* C13: the loader of Cache.fetch runs outside the cache lock, so two threads
\* fetching the same absent key can both invoke it and both write: each
\* returns the value of its own loader invocation, and the entry left in the
\* cache is the one written last.
C13_LastWriterWins ==
    [][\A t \in Fetchers :
          (cpc[t] = "storing" /\ cpc'[t] # "storing") =>
              /\ ret' = Ended(t, cop[t], RetValue(loaded[t]))
              /\ cop[t].key \in DOMAIN store'
              /\ store'[cop[t].key].value = loaded[t]]_vars

\* thread 2 has just written and returned its own value for a key while
\* thread 1, which missed on the same key, is about to write another value
C13_Witness ==
    /\ cpc[1] = "storing"
    /\ loaded[1] = Value(1)
    /\ ret.thread = 2
    /\ Ret("fetch", cop[1].key)
    /\ ret.result = RetValue(Value(2))
    /\ store[cop[1].key].value = Value(2)

\* the keys whose last write had a TTL of 0
ZeroTtlKeys == {k \in DOMAIN written : written[k].ttl = 0}

\* the step just taken ended a call of method name
Called(name) == calls' = calls + 1 /\ ret'.call.name = name

\* C14: a TTL of 0 is immediate expiry: once k is written by set(k, v, ttl=0)
\* or by fetch(k, loader, ttl=0), every get(k) and has(k) reports it absent,
\* size does not count it, keys does not list it, and every fetch(k, loader)
\* invokes the loader.
C14_ZeroTtlExpiresAtOnce ==
    [][\A k \in ZeroTtlKeys :
          /\ (Called("get") /\ ret'.call.key = k) => ret'.result = RetValue(NoneValue)
          /\ (Called("has") /\ ret'.call.key = k) => ret'.result = RetFlag(FALSE)
          /\ Called("size") =>
                 ret'.result.count <= Cardinality(DOMAIN written \ ZeroTtlKeys)
          /\ Called("keys") => k \notin ret'.result.keys
          /\ \A t \in Fetchers : Fetches(t, k) => InvokesLoader(t)]_vars

\* a value stored with ttl=0 is already absent for a get at the same instant
C14_Witness ==
    \E k \in ZeroTtlKeys :
        /\ written[k].value # NoneValue
        /\ now = written[k].at
        /\ Ret("get", k)
        /\ ret.result = RetValue(NoneValue)

\* the keys written and not deleted or cleared since whose TTL has not run out
LiveKeys == {k \in DOMAIN written : now < ClaimedExpiry(written[k])}

\* C15 as stated: keys() deletes the expired entries as size does - after it
\* returns the store holds no entry that was expired at the time of the
\* call - and returns exactly the unexpired keys.
C15_KeysDeletesExpired ==
    [][Called("keys") =>
          /\ \A k \in DOMAIN store' : now < store'[k].expires_at
          /\ ret'.result = RetKeys(LiveKeys)]_vars

\* C15, amended: keys() returns exactly the unexpired keys and deletes
\* nothing: the expired entries stay in the store until get, has, fetch or
\* size meets them.
C15_KeysListsUnexpired ==
    [][Called("keys") =>
          /\ store' = store
          /\ ret'.result = RetKeys(LiveKeys)]_vars

\* keys() has returned without an expired key that is still in the store
C15_Witness ==
    /\ ret.call.name = "keys"
    /\ \E k \in DOMAIN store : now >= store[k].expires_at /\ k \notin ret.result.keys

C17_OtherErrorsPassThrough ==
    [][\A t \in Callers : \A o \in ClientApiOutcomes :
          (/\ ConnectionReturns(t, o)
           /\ ConnectionGet(o).state = "raised"
           /\ ~(ConnectionGet(o).kind = "NotFoundError"
                  /\ cop[t].lookup = "get_prompt_production")) =>
              /\ ret'.thread = t
              /\ ret'.call = cop[t]
              /\ ret'.result.state = "raised"
              /\ ret'.result.error = ConnectionGet(o)]_vars

\* get_prompt_latest has failed with the NotFoundError of a 404
C17_Witness ==
    /\ ret.call.name = "get_prompt_latest"
    /\ ret.result.state = "raised"
    /\ ret.result.error = ErrorFromResponse(404, "")
    /\ ret.result.error.kind = "NotFoundError"

\* thread t starts a lookup with the option cache=False
BypassStarts(t) ==
    /\ cpc[t] = "idle"
    /\ calls' = calls + 1
    /\ \/ cop'[t].name # "" /\ ~cop'[t].use_cache
       \/ ret'.thread = t /\ ~ret'.call.use_cache

\* C18: a lookup called with cache=False bypasses the cache: it always goes
\* to Connection, even when an unexpired entry for its key is stored, it
\* returns what Connection gave it, and no step of it changes the store.
C18_CacheFalseBypasses ==
    [][\A t \in Callers :
          /\ BypassStarts(t) => (cpc'[t] = "loading" /\ store' = store)
          /\ (cpc[t] # "idle" /\ ~cop[t].use_cache) =>
                 /\ store' = store
                 /\ (ret'.result.state = "returned" /\ ret'.call.name # "render_prompt") =>
                        ret'.result.value =
                            Resource(IF cop[t].lookup = "get_prompt" THEN "Prompt"
                                     ELSE "PromptVersion", cop[t].prompt_id, calls)]_vars

\* get_prompt(id, cache=False) has returned a fresh Prompt while the
\* unexpired entry of an earlier get_prompt(id) is still stored
C18_Witness ==
    /\ ret.call.name = "get_prompt"
    /\ ~ret.call.use_cache
    /\ ret.result.state = "returned"
    /\ Unexpired(ret.call.key)
    /\ store[ret.call.key].value.data < ret.result.value.data

\* --------------------------------------------------- claims on Renderer
\* the supplied names that are not declared
Undeclared == IF declared.given THEN SuppliedKeys(supplied) \ declared.names ELSE {}

\* the placeholders of the template for which no value is supplied
Unfilled == FindAll(content) \ SuppliedKeys(supplied)

\* C19: unknown names are looked for before the substitution and missing
\* ones after it: a call that supplies an undeclared name and leaves a
\* placeholder unfilled fails with ValidationError, and MissingVariableError
\* is raised only when no supplied name is undeclared.
C19_ValidationBeforeMissing ==
    rpc = "rendered" =>
        /\ (Undeclared # {} /\ Unfilled # {}) =>
               rendered = RenderRaised("ValidationError", Undeclared, <<>>)
        /\ rendered.kind = "MissingVariableError" => Undeclared = {}

\* a call with an undeclared name and an unfilled placeholder has failed
\* with ValidationError
C19_Witness ==
    /\ rpc = "rendered"
    /\ Undeclared # {}
    /\ Unfilled # {}
    /\ rendered.kind = "ValidationError"

\* the value supplied for name n
SuppliedValue(n) == supplied[CHOOSE i \in DOMAIN supplied : supplied[i][1] = n][2]

\* the template with each of its own placeholders replaced by the value
\* supplied for it, the values themselves left as they are
RECURSIVE SinglePass(_)
SinglePass(text) ==
    IF text = <<>> THEN <<>>
    ELSE (IF IsPlaceholder(Head(text)) /\ PlaceholderName(Head(text)) \in SuppliedKeys(supplied)
          THEN SuppliedValue(PlaceholderName(Head(text)))
          ELSE <<Head(text)>>)
         \o SinglePass(Tail(text))

\* C20: substitution is single pass: a value containing {{other}} is
\* inserted as it is and never replaced by the value supplied for other,
\* whatever the order of the supplied variables, so what render returns is
\* the template with only its own placeholders replaced.
C20_SinglePassSubstitution ==
    (rpc = "rendered" /\ rendered.state = "returned") =>
        rendered.text = SinglePass(content)

\* the names of the placeholders that occur in the supplied values
ValueNames == UNION {FindAll(supplied[i][2]) : i \in DOMAIN supplied}

\* no supplied value contains a placeholder
PlainValues == ValueNames = {}

C22_ExactlyDeclaredSet ==
    (rpc = "rendered" /\ declared.given) =>
        /\ rendered.state = "returned" => SuppliedKeys(supplied) = declared.names
        /\ Undeclared # {} => rendered.state = "raised"
        /\ declared.names \ SuppliedKeys(supplied) # {} => rendered.state = "raised"

\* ------------------------------------------------- claims on the backoff
\* C24: for attempt >= 1 and positive base and max delay, the backoff delay
\* lies within 25% of d = min(max_delay, base_delay * 2^(attempt-1)), is
\* never negative and never exceeds max_delay.
C24_BackoffWithinJitter ==
    \A t \in Threads :
        wait_time[t].attempt >= 1 =>
            LET d == Min(config.retry_max_delay,
                         config.retry_base_delay * Pow2(wait_time[t].attempt - 1))
                w == wait_time[t].wait
            IN  /\ 4 * w >= 3 * d
                /\ 4 * w <= 5 * d
                /\ w >= 0
                /\ w <= config.retry_max_delay

\* a third attempt whose delay of 12 plus jitter was cut down to the cap of 5
C24_Witness ==
    \E t \in Threads :
        /\ config.retry_base_delay = 3
        /\ config.retry_max_delay = 5
        /\ wait_time[t] = WaitTime(3, 5)

\* thread t starts a further attempt of its call only from the loop head,
\* the outcome of the previous attempt handled and its wait elapsed
Sequential(t) ==
    (attempts'[t] = attempts[t] + 1 /\ attempts[t] >= 1) =>
        /\ pc[t] = "loop"
        /\ resp[t] = NoResp
        /\ slept[t] = attempts[t]
        /\ now >= wake[t]

\* thread t starts the wait before a second or later retry
WaitsAgain(t) == slept'[t] = slept[t] + 1 /\ slept[t] >= 1

HeaderSeconds(h) == IF h = "0" THEN 0 ELSE IF h = "2" THEN 2 ELSE -1

\* the error code a body makes available, "" when it makes none available
AvailableCode(text) ==
    IF text \in {"{\"error\": {\"code\": \"E1\"}}",
                 "{\"error\": {\"code\": \"E1\", \"message\": \"m\"}}"}
    THEN "E1" ELSE ""

\* C27: an error response is classified by its status alone - 401
\* Authentication, 403 Authorization, 404 NotFound, 409 Conflict, 429
\* RateLimit with retry_after parsed from the Retry-After header, 500..599
\* Server with that status, anything else the generic ApiError - and the
\* error carries the status, the raw body, and the request id and the error
\* code when the response has them.
C27_ClassifiedByStatus ==
    api_error # NoApiError =>
        /\ api_error.kind = KindOfStatus(response.status)
        /\ api_error.http_status = response.status
        /\ api_error.http_body = response.text
        /\ api_error.request_id = response.request_id
        /\ api_error.error_code = AvailableCode(response.text)
        /\ api_error.retry_after =
               (IF response.status = 429 THEN HeaderSeconds(response.retry_after) ELSE 0 - 1)

\* a 409 with an error code in its body and a request id has been classified
C27_Witness ==
    /\ response.status = 409
    /\ response.request_id = "req-1"
    /\ api_error.kind = "ConflictError"
    /\ api_error.error_code = "E1"
    /\ api_error.request_id = "req-1"

\* C28: observing an expired entry removes it: when get(k) or has(k) meets
\* an expired entry it reports k absent and k is no longer in the store
\* afterwards; when size returns, the store holds no entry that was expired
\* at that time and the number returned is the number of entries left.
C28_ObservedExpiredRemoved ==
    [][/\ \A k \in DOMAIN store :
             (now >= store[k].expires_at /\ ret'.call.key = k) =>
                 /\ Called("get") =>
                        ret'.result = RetValue(NoneValue) /\ k \notin DOMAIN store'
                 /\ Called("has") =>
                        ret'.result = RetFlag(FALSE) /\ k \notin DOMAIN store'
       /\ Called("size") =>
              /\ \A k \in DOMAIN store' : now < store'[k].expires_at
              /\ \A k \in DOMAIN store : now < store[k].expires_at => k \in DOMAIN store'
              /\ ret'.result = RetCount(Cardinality(DOMAIN store'))]_vars

\* get has returned None for a key whose entry had outlived its TTL of 2,
\* and the entry is gone
C28_Witness ==
    \E k \in DOMAIN written :
        /\ Ret("get", k)
        /\ written[k].ttl = 2
        /\ now >= written[k].at + 2
        /\ ret.result = RetValue(NoneValue)
        /\ k \notin DOMAIN store

\* C30: when the token acquisition of an attempt fails, the request call ends
\* at once with that token error: no request is sent to the API in that
\* attempt, nothing is slept and no further attempt is made, however many
\* attempts the retry budget still holds.
C30_TokenFailureNotRetried ==
    [][\A t \in Callers :
        (/\ op[t] = "request"
         /\ pc[t] = "tm_handle" /\ pc'[t] # "tm_handle"
         /\ TokenFetchError(answer[t]) # "")
        => /\ pc'[t] = "done"
           /\ result'[t].state = "raised"
           /\ result'[t].kind = TokenFetchError(answer[t])
           /\ sent'[t] = sent[t]
           /\ sent[t] = attempts[t] - 1
           /\ slept'[t] = slept[t]
           /\ attempts'[t] = attempts[t]]_vars

\* the token request of a second attempt failed with two attempts of the
\* budget unused: the call is over with the token error
C30_Witness ==
    \E t \in Callers :
        /\ config.max_retries = MaxRetriesBound
        /\ pc[t] = "done"
        /\ result[t].state = "raised"
        /\ result[t].kind \in {"InvalidCredentialsError", "TokenRefreshError"}
        /\ attempts[t] = 2
        /\ sent[t] = 1
        /\ slept[t] = 1

\* C29: within each attempt the bearer token is obtained from the Token
\* Manager before the "request" telemetry event is emitted, and the HTTP
\* request is issued only after both: the event is emitted by a thread that
\* holds the token of the attempt and has not sent yet, and a request is sent
\* only by a thread that holds the token and, with telemetry enabled, has
\* emitted the event of the attempt.
C29_TokenThenEventThenRequest ==
    [][\A t \in Callers :
        /\ (emitted'.thread = t /\ emitted'.event = "request") => pc[t] = "send"
        /\ (sent'[t] = sent[t] + 1)
           => /\ pc[t] = "send"
              /\ config.telemetry_enabled => requested[t] = attempts[t]]_vars

\* C26: over any interleaving of requests on one Connection that is never
\* closed, the first requests of several threads included, at most one
\* transport handle is ever created.
C26_AtMostOneHandle == handles <= 1

NoneKeys == {k \in DOMAIN written : written[k].value = NoneValue}

ReadsOnly ==
    \/ Called("get") \/ Called("has") \/ Called("size") \/ Called("keys")
    \/ \E t \in Fetchers : \E k \in KeyNames : Fetches(t, k) /\ ~InvokesLoader(t)

\* C40: reads never extend the life of an entry: get, has, size, keys and a
\* fetch that hits leave every unexpired entry where it is, with the
\* expires_at it had; and every stored entry expires at the instant its last
\* write gave it, t0 + ttl, so that it is absent from then on unless it is
\* written again.
C40_ReadsNeverExtendLife ==
    [][/\ ReadsOnly =>
            \A k \in DOMAIN store :
                now < store[k].expires_at =>
                    /\ k \in DOMAIN store'
                    /\ store'[k] = store[k]
       /\ \A k \in DOMAIN store' :
              /\ k \in DOMAIN written'
              /\ store'[k].expires_at = ClaimedExpiry(written'[k])
       /\ \A k \in KeyNames :
              (Called("get") /\ ret'.call.key = k /\ k \in DOMAIN written
                 /\ now >= ClaimedExpiry(written[k])) =>
                  ret'.result = RetValue(NoneValue)]_vars

\* a get found a value one second after it was written for two seconds, and
\* the entry still expires when the write said
C40_Witness ==
    \E k \in KeyNames :
        /\ Ret("get", k)
        /\ ret.result.value # NoneValue
        /\ k \in DOMAIN store
        /\ written[k].ttl = 2
        /\ now = written[k].at + 1
        /\ store[k].expires_at = written[k].at + 2

\* the cache keys of the lookups a caller makes
ClientKeys == {CacheKey(l, id, v) : l \in Lookups, id \in PromptIds, v \in VersionIds}

\* C34: a failure is never cached.  When the loader of a lookup raises -
\* Connection.get failed with NotFoundError, a server or a connection error,
\* or the closure raised NoProductionVersionError - the lookup raises, no
\* entry is stored and none is left for its key; and a lookup whose key has no
\* entry goes to the backend, so the lookup that failed is requested again
\* on the next call.
C34_FailureIsNotCached ==
    [][\A t \in Callers :
        /\ \A o \in ClientApiOutcomes :
              (ConnectionReturns(t, o) /\ ConnectionGet(o).state = "raised") =>
                  /\ ret'.thread = t
                  /\ ret'.result.state = "raised"
                  /\ store' = store
                  /\ UseCache(cop[t].use_cache, config.cache_enabled) =>
                         cop[t].key \notin DOMAIN store'
        /\ \A k \in ClientKeys :
              (Fetches(t, k) /\ k \notin DOMAIN store) => InvokesLoader(t)]_vars

\* the second lookup of a key has failed as the first one did, with the
\* cache in use: nothing is stored
C34_Witness ==
    /\ config.cache_enabled
    /\ calls = 2
    /\ ret.call.use_cache
    /\ ret.call.name = "get_prompt_production"
    /\ ret.result.state = "raised"
    /\ ret.result.error.kind = "NoProductionVersionError"
    /\ store = <<>>
    /\ written = <<>>

\* the resource type a lookup builds
BuiltBy(lookup) == IF lookup = "get_prompt" THEN "Prompt" ELSE "PromptVersion"

\* C38: distinct lookups use distinct cache keys, so a value cached by one
\* lookup is never returned by another: whatever get_prompt,
\* get_prompt_latest, get_prompt_production or get_prompt_version returns is
\* the resource of its own kind for the prompt id it was asked for
\* (get_prompt never returns a PromptVersion).
C38_DistinctLookupsDistinctKeys ==
    (ret.call.name \in Lookups /\ ret.result.state = "returned") =>
        /\ ret.result.value.type = BuiltBy(ret.call.name)
        /\ ret.result.value.id = ret.call.prompt_id

\* ------------------------------------------- more claims on TokenManager
\* thread t ends a token fetch that failed
FetchFails(t) ==
    pc[t] = "tm_handle" /\ pc'[t] # "tm_handle" /\ TokenFetchError(answer[t]) # ""

\* C35: a token fetch that fails leaves the stored TokenInfo as it was (a
\* cached token is kept, none is created) and releases the lock; the caller
\* gets the fetch error even when the cached token has not expired yet; the
\* token still needs a refresh, and every caller that enters while it does,
\* those that waited for the lock included, sends a fetch of its own.
C35_FailedFetchKeepsTokenFreesLock ==
    [][\A t \in Threads :
        /\ FetchFails(t) =>
               /\ token_info' = token_info
               /\ lock' = NoThread
               /\ result'[t].state = "raised"
               /\ result'[t].kind = TokenFetchError(answer[t])
               /\ NeedsRefresh(token_info', now', config.token_refresh_buffer)
        /\ (/\ pc[t] = "tm_wait" /\ pc'[t] # "tm_wait"
            /\ NeedsRefresh(token_info, now, config.token_refresh_buffer)) =>
               /\ pc'[t] = "tm_fetch"
               /\ lock' = t
               /\ post'[t] = fetchStarted + 1]_vars

\* a refresh failed while the cached token was inside the buffer and not
\* yet expired: the caller has the error, the token is still stored, the lock
\* is free
C35_Witness ==
    \E t \in Threads :
        /\ pc[t] = "done"
        /\ result[t].state = "raised"
        /\ result[t].kind = "TokenRefreshError"
        /\ token_info.has
        /\ now < token_info.expires_at
        /\ now >= token_info.expires_at - config.token_refresh_buffer
        /\ lock = NoThread
        /\ fetchStarted = 2

\* the answer o of the auth endpoint grants a token that lives no longer
\* than the refresh buffer
ShortLived(o) ==
    o.kind = "response" /\ o.status = 200 /\ ExpiresIn(o) <= config.token_refresh_buffer

\* C36: a token granted with expires_in <= token_refresh_buffer counts as
\* needing refresh from the instant it is stored and for as long as it is
\* stored, and a caller that enters while the token needs refresh sends a new
\* fetch: every get_access_token call fetches, and single-flight does not
\* limit the callers to one fetch.
C36_ShortLivedTokenAlwaysRefetched ==
    [][/\ \A t \in Threads :
            (pc[t] = "tm_handle" /\ pc'[t] # "tm_handle" /\ ShortLived(answer[t])) =>
                /\ token_info'.has
                /\ NeedsRefresh(token_info', now', config.token_refresh_buffer)
       /\ (/\ token_info' = token_info
           /\ NeedsRefresh(token_info, now, config.token_refresh_buffer)) =>
              NeedsRefresh(token_info', now', config.token_refresh_buffer)
       /\ \A t \in Threads :
            (/\ pc[t] = "tm_wait" /\ pc'[t] # "tm_wait"
             /\ NeedsRefresh(token_info, now, config.token_refresh_buffer)) =>
                /\ pc'[t] = "tm_fetch"
                /\ fetchStarted' = fetchStarted + 1]_vars

\* two threads called at the same second and each got the token of its own
\* fetch, the token living as long as the buffer
C36_Witness ==
    /\ now = 0
    /\ fetchStarted = 2
    /\ token_info.has
    /\ token_info.expires_at = config.token_refresh_buffer
    /\ pc[1] = "done" /\ result[1] = Returned("token", 1)
    /\ pc[2] = "done" /\ result[2] = Returned("token", 2)

\* C33: every Connection call terminates.  Given that client.request,
\* client.post and time.sleep come back, a call that is running ends: it
\* returns a payload or raises, whatever max_retries is and whatever the
\* outcomes of its attempts are.
C33_EveryCallTerminates ==
    \A t \in Callers :
        (pc[t] \notin {"idle", "done"})
            ~> (pc[t] = "done" /\ result[t].state \in {"returned", "raised"})

\* a call that used every retry and slept before each has ended raising
C33_Witness ==
    \E t \in Callers :
        /\ pc[t] = "done"
        /\ config.max_retries = MaxRetriesBound
        /\ attempts[t] = MaxRetriesBound + 1
        /\ slept[t] = MaxRetriesBound
        /\ result[t].state = "raised"

\* the attempt of thread t ends its try statement in this step
AttemptEnds(t) == pc[t] = "handle" /\ pc'[t] # "handle"

\* the event the claim names for an outcome of client.request
NamedEvent(o) == IF o.kind = "response" THEN "response" ELSE "error"

\* C37: with telemetry enabled every attempt emits one request event first
\* and then, unless token acquisition fails, one further event, a response
\* event for an HTTP response of any status or an error event for a failure
\* of the transport; an HTTP error status never produces an error event;
\* with telemetry disabled no event is emitted.
C37_RequestThenOneOutcomeEvent ==
    [][\A t \in Callers :
        /\ ~config.telemetry_enabled => emitted' = NoEmit
        /\ config.telemetry_enabled =>
              /\ (emitted'.event = "request") <=> (attempts'[t] = attempts[t] + 1)
              /\ requested'[t] = attempts'[t]
              /\ AttemptEnds(t) =>
                    /\ emitted'.event = NamedEvent(resp[t])
                    /\ emitted'.thread = t
              /\ ~AttemptEnds(t) => emitted'.event \notin {"response", "error"}
              /\ (AttemptEnds(t) /\ resp[t].kind = "response" /\ resp[t].status >= 400)
                    => emitted'.event # "error"]_vars

\* C31: the request identifier is generated once per call, before the retry
\* loop.  While a call runs its identifier does not change; every attempt
\* after the first sends the X-Request-ID header the attempt before it sent,
\* which is the identifier of the call; and every telemetry event carries
\* the identifier of the call of the thread that emits it.
C31_OneRequestIdPerCall ==
    [][\A t \in Callers :
        /\ pc[t] \notin {"idle", "done"} => request_id'[t] = request_id[t]
        /\ sent'[t] = sent[t] + 1 =>
              /\ x_request_id'[t] = request_id[t]
              /\ sent[t] >= 1 => x_request_id'[t] = x_request_id[t]
        /\ emitted'.thread = t =>
              /\ emitted'.request_id = request_id[t]
              /\ x_request_id'[t] # 0 => emitted'.request_id = x_request_id'[t]]_vars

\* the second attempt of the second call was answered: both attempts sent
\* the identifier of that call and the response event carries it
C31_Witness ==
    \E t \in Callers :
        /\ calls = 2
        /\ sent[t] = 2
        /\ request_id[t] = GenerateRequestId(2)
        /\ x_request_id[t] = request_id[t]
        /\ emitted.thread = t
        /\ emitted.event = "response"
        /\ emitted.request_id = request_id[t]

\* C32: Connection.close() releases the transport handle and is idempotent:
\* it closes the handle _client holds and leaves _client None, and with no
\* handle (never created, or closed already) it changes nothing; it never
\* ends or fails a call.  A request made after close() finds no handle and
\* creates a new one, so that every request is sent on a handle that has
\* not been closed.
C32_CloseThenLazyRecreate ==
    [][/\ closes' = closes + 1 =>
             /\ client' = 0
             /\ closed' = closed \cup ({client} \ {0})
             /\ client = 0 => closed' = closed
             /\ handles' = handles
             /\ pc' = pc /\ result' = result
       /\ client' # 0 => client' \notin closed'
       /\ \A t \in Callers :
             /\ ~(pc[t] = "loop" /\ pc'[t] \in {"tm_wait", "send"} /\ client \in closed)
             /\ (pc[t] = "new_client" /\ pc'[t] # "new_client")
                   => (handles' = handles + 1 /\ using'[t] = handles' /\ client' = handles')
             /\ sent'[t] = sent[t] + 1 => (using[t] # 0 /\ using[t] \notin closed)]_vars

\* close() was called twice after a first request, and the request made
\* after them was sent on a second handle and returned
C32_Witness ==
    \E t \in Callers :
        /\ closes = 2
        /\ closed = {1}
        /\ calls = 2
        /\ pc[t] = "done"
        /\ sent[t] >= 1
        /\ using[t] = 2
        /\ client = 2
        /\ result[t].state = "returned"

====
